---------------------------- MODULE Spec2Model ----------------------------
(***************************************************************************)
(* A model of the Red Phone Agent message-understanding and case-routing   *)
(* pipeline: the Scenario Matcher (data/realScenarios.js), the pipeline    *)
(* entry point (services/simpleAiService.js), the Compliance Checker       *)
(* (utils/policyChecker.js), the Case Router (caseRouter) and the Rules of *)
(* Engagement tables and lookups (rulesOfEngagement).                      *)
(*                                                                         *)
(* Texts that the code searches (utterances, descriptions, approver        *)
(* titles, bracket keys) are sequences of one-character strings, so that   *)
(* String.includes, toLowerCase, trim, split, replace and parseInt are     *)
(* computed and not assumed.                                               *)
(*                                                                         *)
(* Numbers with a fractional part are fixed-point with one decimal digit:  *)
(* a discount of 10.5% is 105, a complexity score of 3.6 is 36.  The       *)
(* priority multipliers 1, 1.2, 1.5, 2 are 10, 12, 15, 20.  The products   *)
(* (integer points) * multiplier that reach a threshold of the code        *)
(* (2, 3, 5, 8) are exact in IEEE doubles (n * 1.5 always, 5 * 1.2 = 6),   *)
(* so the fixed-point comparison agrees with the JavaScript one.           *)
(***************************************************************************)
EXTENDS Integers, Sequences, FiniteSets, TLC

VARIABLES
  caseData,      \* the CaseDraft handed to the checker and the router
  compliance,    \* result of checkCompliance(caseData), or NoResult
  routing,       \* result of routeCase(caseData), or NoResult
  messageText,   \* the utterance last handed to the pipeline
  matched,       \* result of findMatchingScenario(messageText), or NoResult
  response,      \* result of processMessage(messageText), or NoResult
  conversationHistory, \* SimpleAiService.conversationHistory
  messageAnalysis, \* result of MessageProcessor.analyzeMessage, or NoResult
  conversation,  \* the conversationContext handed to analyzeMessage
  policyLookup,  \* the last lookup of KnowledgeBaseService and its result
  conversations, \* ContextManager.conversations: sessionId -> context
  now,           \* Date.now(), in minutes
  lastCall,      \* the method of ContextManager that ran last
  formData,      \* CaseCreationForm: the field values
  checkTimer,    \* the field values the pending 500 ms timer closes over
  complianceCheck, \* CaseCreationForm: state set by the debounced checks
  routingInfo,   \* CaseCreationForm: state set by the debounced checks
  isSubmitting,  \* CaseCreationForm: a submit is waiting for its delay
  submission,    \* the state that the waiting handleSubmit closes over
  submitted,     \* the submissionData handed to onSubmit, or NoResult
  messages,      \* ChatInterface: the messages shown
  isLoading,     \* ChatInterface: the loading flag
  pendingCalls   \* the calls of processMessage that have not settled

vars ==
  <<caseData, compliance, routing, messageText, matched, response,
   conversationHistory,
    messageAnalysis, conversation, policyLookup, conversations, now, lastCall,
    formData, checkTimer, complianceCheck, routingInfo, isSubmitting,
    submission, submitted, messages, isLoading, pendingCalls>>

caseVars ==
  <<caseData, compliance, routing>>

chatVars ==
  <<messageText, matched, response, conversationHistory>>

procVars ==
  <<messageAnalysis, conversation>>

\* The variables of the components that the checker, the router and the
\* scenario pipeline do not touch.
storeVars ==
  <<policyLookup>>

sessionVars ==
  <<conversations, now, lastCall>>

formVars ==
  <<formData, checkTimer, complianceCheck, routingInfo, isSubmitting,
    submission, submitted>>

dialogVars ==
  <<messages, isLoading, pendingCalls>>

\* The state of the components of the user interface.
uiVars ==
  <<formVars, dialogVars>>

auxVars ==
  <<procVars, storeVars, sessionVars, uiVars>>

\* A result slot that holds nothing yet.
NoResult ==
  [none |-> TRUE]

\* JavaScript's null where a text is expected: a value that is no text (no
\* sequence of single characters), so that it equals no approver title.
Null ==
  <<"null">>

\* JavaScript's undefined where a text is expected.
Undefined ==
  <<"undefined">>

\* A truthy value that is no string (a number, an object) in a field where a
\* text is expected: calling a method of String on it raises a TypeError.
NotAString ==
  <<"not a string">>

\* undefined where an object is expected (find() with no hit) and null where
\* an object is expected (a lookup with no entry).
NoEntry ==
  [undefined |-> TRUE]

NoPolicy ==
  [null |-> TRUE]

\* A CaseDraft field that was never set; as an object key it reads "undefined".
Absent ==
  "undefined"

\* parseInt / parseFloat of a text with no leading number: a value below every
\* number that a text of digits denotes.
NaN ==
  0 - 1

(***************************************************************************)
(* Text primitives                                                         *)
(***************************************************************************)

\* String.prototype.includes: k occurs in s as a contiguous substring.
Includes(s, k) ==
  \E i \in 0..(Len(s) - Len(k)) :
    \A j \in 1..Len(k) : s[i + j] = k[j]

UpperCase ==
  <<"A","B","C","D","E","F","G","H","I","J","K","L","M",
    "N","O","P","Q","R","S","T","U","V","W","X","Y","Z">>

LowerCase ==
  <<"a","b","c","d","e","f","g","h","i","j","k","l","m",
    "n","o","p","q","r","s","t","u","v","w","x","y","z">>

LowerChar(c) ==
  IF \E i \in 1..26 : UpperCase[i] = c
    THEN LowerCase[CHOOSE i \in 1..26 : UpperCase[i] = c]
    ELSE c

\* String.prototype.toLowerCase
ToLowerCase(s) ==
  [i \in 1..Len(s) |-> LowerChar(s[i])]

IsSpace(c) ==
  c \in {" ", "\t", "\n"}

\* String.prototype.trim
Trim(s) ==
  IF \A i \in 1..Len(s) : IsSpace(s[i])
    THEN <<>>
    ELSE LET first == CHOOSE i \in 1..Len(s) :
                        /\ ~IsSpace(s[i])
                        /\ \A j \in 1..(i - 1) : IsSpace(s[j])
             last  == CHOOSE i \in 1..Len(s) :
                        /\ ~IsSpace(s[i])
                        /\ \A j \in (i + 1)..Len(s) : IsSpace(s[j])
         IN  SubSeq(s, first, last)

DigitChars ==
  <<"0","1","2","3","4","5","6","7","8","9">>

IsDigit(c) ==
  \E i \in 1..10 : DigitChars[i] = c

DigitValue(c) ==
  (CHOOSE i \in 1..10 : DigitChars[i] = c) - 1

\* Value of a text made of digits only.
RECURSIVE DigitsValue(_)
DigitsValue(s) ==
  IF s = <<>> THEN 0
  ELSE 10 * DigitsValue(SubSeq(s, 1, Len(s) - 1)) + DigitValue(s[Len(s)])

\* Length of the run of digits that starts at position i of s.
RECURSIVE DigitRun(_, _)
DigitRun(s, i) ==
  IF i <= Len(s) /\ IsDigit(s[i]) THEN 1 + DigitRun(s, i + 1) ELSE 0

\* parseInt: skips leading white space, reads the leading digits, ignores
\* the rest; NaN when there is no leading digit.
ParseInt(s) ==
  LET t == Trim(s)
      n == DigitRun(t, 1)
  IN  IF n = 0 THEN NaN ELSE DigitsValue(SubSeq(t, 1, n))

\* First position at which k occurs in s, 0 when it does not.
IndexOf(s, k) ==
  IF Includes(s, k)
    THEN 1 + (CHOOSE i \in 0..(Len(s) - Len(k)) :
                /\ \A j \in 1..Len(k) : s[i + j] = k[j]
                /\ \A h \in 0..(i - 1) : \E j \in 1..Len(k) : s[h + j] # k[j])
    ELSE 0

\* String.prototype.split with a non-empty separator.
RECURSIVE Split(_, _)
Split(s, sep) ==
  LET p == IndexOf(s, sep)
  IN  IF p = 0 THEN <<s>>
      ELSE <<SubSeq(s, 1, p - 1)>> \o Split(SubSeq(s, p + Len(sep), Len(s)), sep)

\* String.prototype.replace with a string pattern: the first occurrence only.
Replace(s, pat, rep) ==
  LET p == IndexOf(s, pat)
  IN  IF p = 0 THEN s
      ELSE SubSeq(s, 1, p - 1) \o rep \o SubSeq(s, p + Len(pat), Len(s))

(***************************************************************************)
(* Numbers                                                                 *)
(***************************************************************************)

\* A whole percentage (or a whole score) as a fixed-point number.
Pct(n) ==
  n * 10

\* Comparisons as JavaScript makes them: any comparison with NaN is false.
GT(a, b) ==
  a # NaN /\ b # NaN /\ a > b

GE(a, b) ==
  a # NaN /\ b # NaN /\ a >= b

LE(a, b) ==
  a # NaN /\ b # NaN /\ a <= b

LT(a, b) ==
  a # NaN /\ b # NaN /\ a < b

Times(a, b) ==
  IF a = NaN \/ b = NaN THEN NaN ELSE a * b

\* parseFloat(x) || 0 for a numeric field.
NumOrZero(x) ==
  IF x = NaN THEN 0 ELSE x

Min(a, b) ==
  IF a <= b THEN a ELSE b

(***************************************************************************)
(* Approver titles                                                         *)
(***************************************************************************)

\* "Auto-approved"
AutoApproved ==
  <<"A","u","t","o","-","a","p","p","r","o","v","e","d">>

\* "Sales Manager"
SalesManager ==
  <<"S","a","l","e","s"," ","M","a","n","a","g","e","r">>

\* "Regional Director"
RegionalDirector ==
  <<"R","e","g","i","o","n","a","l"," ","D","i","r","e","c","t","o","r">>

\* "VP Sales"
VPSales ==
  <<"V","P"," ","S","a","l","e","s">>

\* "VP Sales + Finance"
VPSalesFinance ==
  <<"V","P"," ","S","a","l","e","s"," ","+"," ","F","i","n","a","n","c","e">>

\* "VP Sales + CEO"
VPSalesCEO ==
  <<"V","P"," ","S","a","l","e","s"," ","+"," ","C","E","O">>

\* "VP Engineering"
VPEngineering ==
  <<"V","P"," ","E","n","g","i","n","e","e","r","i","n","g">>

\* "Engineering Manager"
EngineeringManager ==
  <<"E","n","g","i","n","e","e","r","i","n","g"," ","M","a","n","a","g","e",
    "r">>

\* "Legal + Sales Director"
LegalSalesDirector ==
  <<"L","e","g","a","l"," ","+"," ","S","a","l","e","s"," ","D","i","r","e",
    "c","t","o","r">>

\* "CS Director"
CSDirector ==
  <<"C","S"," ","D","i","r","e","c","t","o","r">>

\* "General Counsel"
GeneralCounsel ==
  <<"G","e","n","e","r","a","l"," ","C","o","u","n","s","e","l">>

\* "CEO"
CEO ==
  <<"C","E","O">>

\* "CFO"
CFO ==
  <<"C","F","O">>

(***************************************************************************)
(* Rules of Engagement: tables and lookups                                 *)
(***************************************************************************)

\* rulesOfEngagement.discountPolicies.standard, by deal type and segment.
\* max, typical, autoApproved are whole percentages.
standardDiscounts ==
  [newBusiness |->
     [enterprise      |-> [max |-> 20, typical |-> 15, autoApproved |-> 10],
      midmarket       |-> [max |-> 15, typical |-> 10, autoApproved |-> 7],
      smb             |-> [max |-> 10, typical |-> 5,  autoApproved |-> 5],
      largeEnterprise |-> [max |-> 25, typical |-> 20, autoApproved |-> 15],
      globalAccounts  |-> [max |-> 30, typical |-> 25, autoApproved |-> 20]],
   renewal |->
     [enterprise      |-> [max |-> 15, typical |-> 10, autoApproved |-> 8],
      midmarket       |-> [max |-> 12, typical |-> 8,  autoApproved |-> 5],
      smb             |-> [max |-> 8,  typical |-> 3,  autoApproved |-> 3],
      largeEnterprise |-> [max |-> 20, typical |-> 15, autoApproved |-> 12],
      globalAccounts  |-> [max |-> 25, typical |-> 20, autoApproved |-> 15]],
   addon |->
     [all |-> [max |-> 5, typical |-> 0, autoApproved |-> 5]]]

\* rulesOfEngagement.discountPolicies.regional: additionalDiscount by region.
regionalDiscounts ==
  [namer |-> 0, latam |-> 5, emea |-> 3, apac |-> 7]

\* getDiscountPolicy(dealType, segment, region): the entry with its regional
\* adjustment and effective maximum, or NoPolicy (null) when the table has no
\* entry.
getDiscountPolicy(dealType, segment, region) ==
  LET regionalAdjustment ==
        IF region \in DOMAIN regionalDiscounts
          THEN regionalDiscounts[region] ELSE 0
  IN  IF /\ dealType \in DOMAIN standardDiscounts
         /\ segment \in DOMAIN standardDiscounts[dealType]
        THEN LET standardDiscount == standardDiscounts[dealType][segment]
             IN  [max |-> standardDiscount.max,
                  typical |-> standardDiscount.typical,
                  autoApproved |-> standardDiscount.autoApproved,
                  regionalAdjustment |-> regionalAdjustment,
                  effectiveMax |-> standardDiscount.max + regionalAdjustment]
        ELSE NoPolicy

\* rulesOfEngagement.approvalWorkflow.discountApproval, in key order.
discountApprovalTable ==
  << [range |-> <<"0","-","1","0","%">>,
      approver |-> AutoApproved, timeframe |-> "Immediate"],
     [range |-> <<"1","1","-","2","0","%">>,
      approver |-> SalesManager, timeframe |-> "24 hours"],
     [range |-> <<"2","1","-","3","0","%">>,
      approver |-> RegionalDirector, timeframe |-> "48 hours"],
     [range |-> <<"3","1","%","+">>,
      approver |-> VPSalesFinance, timeframe |-> "72 hours"] >>

\* rulesOfEngagement.approvalWorkflow.dealSizeApproval, in key order.
dealSizeApprovalTable ==
  << [range |-> <<"u","n","d","e","r","5","0","k">>,
      approver |-> SalesManager, timeframe |-> "24 hours"],
     [range |-> <<"5","0","k","-","2","5","0","k">>,
      approver |-> RegionalDirector, timeframe |-> "48 hours"],
     [range |-> <<"2","5","0","k","-","5","0","0","k">>,
      approver |-> VPSales, timeframe |-> "72 hours"],
     [range |-> <<"5","0","0","k","+">>,
      approver |-> VPSalesCEO, timeframe |-> "1 week"] >>

\* The bounds of a discount bracket, parsed from its key as the predicate of
\* getApprovalRequirement parses them (whole percentages; hi = NaN: open).
DiscountBracket(range) ==
  IF Includes(range, <<"+">>)
    THEN [open |-> TRUE,
          lo |-> ParseInt(Split(range, <<"%">>)[1]), hi |-> NaN]
    ELSE LET parts == Split(range, <<"-">>)
         IN  [open |-> FALSE,
              lo |-> ParseInt(parts[1]),
              hi |-> IF Len(parts) >= 2 THEN ParseInt(parts[2]) ELSE NaN]

\* The bounds of a deal-size bracket in dollars; kind is "from" (>= lo),
\* "between" (lo..hi inclusive) or "under" (< hi).
SizeBracket(range) ==
  IF Includes(range, <<"+">>)
    THEN [kind |-> "from",
          lo |-> Times(ParseInt(Split(range, <<"k">>)[1]), 1000), hi |-> NaN]
    ELSE IF Includes(range, <<"-">>)
      THEN LET parts == Split(range, <<"-">>)
           IN  [kind |-> "between",
                lo |-> Times(ParseInt(Replace(parts[1], <<"k">>, <<>>)), 1000),
                hi |-> Times(ParseInt(Replace(parts[2], <<"k">>, <<>>)), 1000)]
      ELSE [kind |-> "under",
            lo |-> NaN,
            hi |-> Times(ParseInt(Replace(Replace(range,
                            <<"u","n","d","e","r">>, <<>>), <<"k">>, <<>>)),
                         1000)]

\* The parsed brackets of both tables, in key order.
discountBrackets ==
  [i \in 1..Len(discountApprovalTable) |->
     DiscountBracket(discountApprovalTable[i].range)]

sizeBrackets ==
  [i \in 1..Len(dealSizeApprovalTable) |->
     SizeBracket(dealSizeApprovalTable[i].range)]

\* The find() predicates of getApprovalRequirement.
DiscountRangeMatches(b, discountPercent) ==
  IF b.open
    THEN GE(discountPercent, Times(b.lo, 10))
    ELSE /\ GE(discountPercent, Times(b.lo, 10))
         /\ LE(discountPercent, Times(b.hi, 10))

SizeRangeMatches(b, dealSize) ==
  CASE b.kind = "from"    -> GE(dealSize, b.lo)
    [] b.kind = "between" -> GE(dealSize, b.lo) /\ LE(dealSize, b.hi)
    [] b.kind = "under"   -> LT(dealSize, b.hi)

\* Array.prototype.find over a table: the first entry whose bracket matches,
\* NoEntry (undefined) when none does.
FindEntry(table, hits) ==
  IF hits = {} THEN NoEntry
  ELSE LET i == CHOOSE k \in hits : \A h \in hits : k <= h
       IN  [approver |-> table[i].approver, timeframe |-> table[i].timeframe]

\* getApprovalRequirement(discountPercent, dealSize); highestLevel is the one
\* entry when both approvers are the same and the pair otherwise.
getApprovalRequirement(discountPercent, dealSize) ==
  LET discountApproval ==
        FindEntry(discountApprovalTable,
                  {i \in 1..Len(discountApprovalTable) :
                     DiscountRangeMatches(discountBrackets[i], discountPercent)})
      sizeApproval ==
        FindEntry(dealSizeApprovalTable,
                  {i \in 1..Len(dealSizeApprovalTable) :
                     SizeRangeMatches(sizeBrackets[i], dealSize)})
      ApproverOf(e) == IF e = NoEntry THEN Undefined ELSE e.approver
  IN  [discountApproval |-> discountApproval,
       sizeApproval |-> sizeApproval,
       highestLevel |->
         IF ApproverOf(discountApproval) = ApproverOf(sizeApproval)
           THEN <<discountApproval>>
           ELSE <<discountApproval, sizeApproval>>]

(***************************************************************************)
(* The string literals that the router and the checker search texts for    *)
(***************************************************************************)

Kw ==
  [ multiYear |-> <<"m","u","l","t","i","-","y","e","a","r">>,
    threeYear |-> <<"3"," ","y","e","a","r">>,
    multipleYears |-> <<"m","u","l","t","i","p","l","e"," ","y","e","a","r",
        "s">>,
    renewal |-> <<"r","e","n","e","w","a","l">>,
    risk |-> <<"r","i","s","k">>,
    urgent |-> <<"u","r","g","e","n","t">>,
    asap |-> <<"a","s","a","p">>,
    immediate |-> <<"i","m","m","e","d","i","a","t","e">>,
    week |-> <<"w","e","e","k">>,
    soon |-> <<"s","o","o","n">>,
    VP |-> <<"V","P">>,
    Finance |-> <<"F","i","n","a","n","c","e">>,
    Director |-> <<"D","i","r","e","c","t","o","r">>,
    Manager |-> <<"M","a","n","a","g","e","r">>,
    paymentTerms |-> <<"p","a","y","m","e","n","t"," ","t","e","r","m","s">>,
    net60 |-> <<"n","e","t"," ","6","0">>,
    net90 |-> <<"n","e","t"," ","9","0">>,
    net120 |-> <<"n","e","t"," ","1","2","0">>,
    equity |-> <<"e","q","u","i","t","y">>,
    stock |-> <<"s","t","o","c","k">>,
    barter |-> <<"b","a","r","t","e","r">>,
    competitive |-> <<"c","o","m","p","e","t","i","t","i","v","e">>,
    competitor |-> <<"c","o","m","p","e","t","i","t","o","r">>,
    pilot |-> <<"p","i","l","o","t">>,
    trial |-> <<"t","r","i","a","l">>,
    poc |-> <<"p","o","c">>,
    sixMonth |-> <<"6"," ","m","o","n","t","h">>,
    extended |-> <<"e","x","t","e","n","d","e","d">>,
    long |-> <<"l","o","n","g">>,
    custom |-> <<"c","u","s","t","o","m">>,
    integration |-> <<"i","n","t","e","g","r","a","t","i","o","n">>,
    api |-> <<"a","p","i">>,
    security |-> <<"s","e","c","u","r","i","t","y">>,
    compliance |-> <<"c","o","m","p","l","i","a","n","c","e">>,
    soc |-> <<"s","o","c">>,
    gdpr |-> <<"g","d","p","r">>,
    contract |-> <<"c","o","n","t","r","a","c","t">>,
    terms |-> <<"t","e","r","m","s">>,
    msa |-> <<"m","s","a">>,
    privacy |-> <<"p","r","i","v","a","c","y">>,
    dataResidency |-> <<"d","a","t","a"," ","r","e","s","i","d","e","n","c",
        "y">>,
    smb |-> <<"s","m","b">>,
    midmarket |-> <<"m","i","d","m","a","r","k","e","t">>,
    enterprise |-> <<"e","n","t","e","r","p","r","i","s","e">>,
    global |-> <<"g","l","o","b","a","l">>,
    addOn |-> <<"a","d","d","-","o","n">>,
    addon |-> <<"a","d","d","o","n">>,
    upsell |-> <<"u","p","s","e","l","l">>,
    seat |-> <<"s","e","a","t">> ]

(***************************************************************************)
(* Case descriptions                                                       *)
(***************************************************************************)

\* The descriptions that the model's case drafts carry.
Descriptions ==
  { <<>>,
    \* "Multi-Year renewal at risk"
    <<"M","u","l","t","i","-","Y","e","a","r"," ","r","e","n","e","w","a","l",
      " ","a","t"," ","r","i","s","k">>,
    \* "add-on for smb, net 60"
    <<"a","d","d","-","o","n"," ","f","o","r"," ","s","m","b",","," ","n","e",
      "t"," ","6","0">>,
    \* "3 seats pilot, equity"
    <<"3"," ","s","e","a","t","s"," ","p","i","l","o","t",","," ","e","q","u",
      "i","t","y">> }

\* For each description of the model, the literals of Kw that occur in it once
\* it is lower-cased, computed once.
descriptionKeywords ==
  [d \in Descriptions |->
     {k \in DOMAIN Kw : Includes(ToLowerCase(d), Kw[k])}]

\* (caseData.description?.toLowerCase() || '').includes(Kw[k])
DescriptionIncludes(caseData_, k) ==
  k \in descriptionKeywords[caseData_.description]

(***************************************************************************)
(* Case Router (CaseRouter)                                                *)
(***************************************************************************)

\* An object used as a lookup table: table[key] || default.
Lookup(table, key, default) ==
  IF key \in DOMAIN table THEN table[key] ELSE default

\* categoryComplexity of analyzeCaseComplexity.
categoryComplexity ==
  [pricing |-> 1, dealStructure |-> 2, technical |-> 3, legal |-> 3,
   competitive |-> 2, pilotProgram |-> 2, customerSuccess |-> 1, general |-> 1]

\* priorityMultiplier of analyzeCaseComplexity: 1, 1.2, 1.5, 2 in tenths.
priorityMultiplier ==
  [low |-> 10, medium |-> 12, high |-> 15, critical |-> 20]

\* The score before the priority multiplier: deal size, discount, category.
BasePoints(caseData_) ==
  LET dealValue == NumOrZero(caseData_.dealValue)
      discountPercent == NumOrZero(caseData_.discountRequested)
      dealPoints ==
        IF dealValue > 500000 THEN 3
        ELSE IF dealValue > 100000 THEN 2
        ELSE IF dealValue > 25000 THEN 1 ELSE 0
      discountPoints ==
        IF discountPercent > Pct(30) THEN 3
        ELSE IF discountPercent > Pct(20) THEN 2
        ELSE IF discountPercent > Pct(10) THEN 1 ELSE 0
  IN  dealPoints + discountPoints
        + Lookup(categoryComplexity, caseData_.category, 1)

\* The competitor and multi-year points are added before the multiplication.
ComplexityScore_BonusMultiplied(caseData_) ==
  (BasePoints(caseData_)
     + (IF Trim(caseData_.competitorInfo) # <<>> THEN 2 ELSE 0)
     + (IF DescriptionIncludes(caseData_, "multiYear") THEN 1 ELSE 0))
    * Lookup(priorityMultiplier, caseData_.priority, 10)

\* complexityScore of analyzeCaseComplexity, in tenths: the base points times
\* the priority multiplier, then +2 for a competitor and +1 for multi-year.
ComplexityScore(caseData_) ==
  BasePoints(caseData_) * Lookup(priorityMultiplier, caseData_.priority, 10)
    + (IF Trim(caseData_.competitorInfo) # <<>> THEN Pct(2) ELSE 0)
    + (IF DescriptionIncludes(caseData_, "multiYear") THEN Pct(1) ELSE 0)

\* checkForPrecedent
checkForPrecedent(caseData_) ==
  caseData_.category \in {"pricing", "dealStructure", "competitive"}

\* routingRules.approvalLevels: the titles "in order of authority".
approvalLevels ==
  << [level |-> 1, title |-> AutoApproved],
     [level |-> 2, title |-> SalesManager],
     [level |-> 3, title |-> RegionalDirector],
     [level |-> 4, title |-> VPSales],
     [level |-> 5, title |-> VPSalesFinance],
     [level |-> 6, title |-> VPSalesCEO] >>

\* Auto-approval only strictly below the score bound.
AutoApprovable_Below(complexityScore, discountPercent) ==
  complexityScore < Pct(2) /\ discountPercent <= Pct(10)

\* Auto-approval decided by the complexity score alone.
AutoApprovable_ScoreOnly(complexityScore, discountPercent) ==
  complexityScore <= Pct(2)

\* The autoApprovable flag of analyzeCaseComplexity.
AutoApprovable(complexityScore, discountPercent) ==
  complexityScore <= Pct(2) /\ discountPercent <= Pct(10)

analyzeCaseComplexity(caseData_) ==
  LET complexityScore == ComplexityScore(caseData_)
      discountPercent == NumOrZero(caseData_.discountRequested)
      tier ==
        IF complexityScore >= Pct(8) THEN <<"very_complex", "high">>
        ELSE IF complexityScore >= Pct(5) THEN <<"complex", "medium">>
        ELSE IF complexityScore >= Pct(3) THEN <<"moderate", "medium">>
        ELSE <<"simple", "low">>
  IN  [complexity |-> tier[1],
       complexityScore |-> complexityScore,
       riskLevel |-> tier[2],
       autoApprovable |-> AutoApprovable(complexityScore, discountPercent),
       precedentAvailable |-> checkForPrecedent(caseData_)]

\* "Map approver to level" of determineApprovalLevel; level 2 is the value the
\* variable holds when no branch assigns it.
ApproverLevel(primaryApprover) ==
  IF Includes(primaryApprover, Kw.VP) /\ Includes(primaryApprover, Kw.Finance)
    THEN 5
  ELSE IF Includes(primaryApprover, Kw.VP) THEN 4
  ELSE IF Includes(primaryApprover, Kw.Director) THEN 3
  ELSE 2

\* "Category-based routing" of determineApprovalLevel (the switch).
CategoryRouting(caseData_, dealValue, discountPercent) ==
  CASE caseData_.category = "technical" ->
         IF dealValue > 250000
           THEN [approver |-> VPEngineering, level |-> 4, timeline |-> "72 hours"]
           ELSE [approver |-> EngineeringManager, level |-> 3,
                 timeline |-> "48 hours"]
    [] caseData_.category = "legal" ->
         [approver |-> LegalSalesDirector, level |-> 4, timeline |-> "1 week"]
    [] caseData_.category = "competitive" ->
         IF caseData_.priority = "critical"
           THEN [approver |-> VPSales, level |-> 4, timeline |-> "4 hours"]
         ELSE IF discountPercent > Pct(20)
           THEN [approver |-> RegionalDirector, level |-> 3,
                 timeline |-> "48 hours"]
         ELSE [approver |-> SalesManager, level |-> 2, timeline |-> "24 hours"]
    [] caseData_.category = "customerSuccess" ->
         [approver |-> CSDirector, level |-> 3, timeline |-> "48 hours"]
    [] OTHER ->
         IF dealValue > 500000
           THEN [approver |-> VPSales, level |-> 4, timeline |-> "72 hours"]
         ELSE IF dealValue > 100000
           THEN [approver |-> RegionalDirector, level |-> 3,
                 timeline |-> "48 hours"]
         ELSE [approver |-> SalesManager, level |-> 2, timeline |-> "24 hours"]

\* The primary approver of determineApprovalLevel: auto-approval first, then
\* the discount bracket of the ROE lookup, then the category switch.
PrimaryApproval(caseData_, analysis) ==
  LET dealValue == NumOrZero(caseData_.dealValue)
      discountPercent == NumOrZero(caseData_.discountRequested)
      approvalReq ==
        IF discountPercent > 0 /\ dealValue > 0
          THEN getApprovalRequirement(discountPercent, dealValue)
          ELSE [discountApproval |-> NoEntry]
  IN  IF analysis.autoApprovable
        THEN [approver |-> AutoApproved, level |-> 1, timeline |-> "Immediate"]
      ELSE IF approvalReq.discountApproval # NoEntry
        THEN [approver |-> approvalReq.discountApproval.approver,
              level |-> ApproverLevel(approvalReq.discountApproval.approver),
              timeline |-> approvalReq.discountApproval.timeframe]
      ELSE CategoryRouting(caseData_, dealValue, discountPercent)

\* "Determine secondary approver for high-risk cases".
SecondaryApprover(caseData_, analysis, primary) ==
  LET dealValue == NumOrZero(caseData_.dealValue)
  IN  IF analysis.riskLevel = "high" \/ primary.level >= 4
        THEN IF caseData_.category = "legal" THEN GeneralCounsel
             ELSE IF dealValue > 500000 THEN CEO
             ELSE IF Includes(primary.approver, Kw.Finance) THEN CFO
             ELSE Null
        ELSE Null

determineApprovalLevel(caseData_, analysis) ==
  LET primary == PrimaryApproval(caseData_, analysis)
      dealValue == NumOrZero(caseData_.dealValue)
  IN  [primaryApprover |-> primary.approver,
       secondaryApprover |-> SecondaryApprover(caseData_, analysis, primary),
       level |-> primary.level,
       timeline |-> primary.timeline,
       requiresFinanceApproval |->
         Includes(primary.approver, Kw.Finance) \/ dealValue > 500000,
       requiresLegalReview |->
         caseData_.category = "legal" \/ analysis.riskLevel = "high"]

\* routingRules.teams[...].primary by team type, and categoryTeamMap.
teamPrimary ==
  [pricing |-> "Sales Manager", technical |-> "Solutions Engineer",
   legal |-> "Legal Team", competitive |-> "Sales Manager",
   customerSuccess |-> "Customer Success Manager"]

categoryTeamMap ==
  [pricing |-> "pricing", dealStructure |-> "pricing",
   technical |-> "technical", legal |-> "legal",
   competitive |-> "competitive", pilotProgram |-> "pricing",
   customerSuccess |-> "customerSuccess", general |-> "pricing"]

assignTeam(caseData_, analysis) ==
  [primaryTeam |->
     teamPrimary[Lookup(categoryTeamMap, caseData_.category, "pricing")],
   supportingTeams |->
     (IF analysis.riskLevel = "high" THEN <<"Legal Team">> ELSE <<>>)
     \o (IF NumOrZero(caseData_.dealValue) > 250000
           THEN <<"Finance Team">> ELSE <<>>)
     \o (IF caseData_.competitorInfo # <<>>
           THEN <<"Product Marketing">> ELSE <<>>)
     \o (IF caseData_.category = "technical"
           THEN <<"Solutions Engineering">> ELSE <<>>)]

\* priorityScore of assessUrgency.
priorityScore ==
  [low |-> 1, medium |-> 2, high |-> 3, critical |-> 4]

\* urgencyScore of assessUrgency.
UrgencyScore(caseData_) ==
  LET dealValue == NumOrZero(caseData_.dealValue)
      timeframe == ToLowerCase(caseData_.timeframe)
  IN  Lookup(priorityScore, caseData_.priority, 2)
      + (IF dealValue > 500000 THEN 2
         ELSE IF dealValue > 100000 THEN 1 ELSE 0)
      + (IF caseData_.competitorInfo # <<>> THEN 2 ELSE 0)
      + (IF caseData_.timeframe = <<>> THEN 0
         ELSE IF \/ Includes(timeframe, Kw.urgent)
                 \/ Includes(timeframe, Kw.asap)
                 \/ Includes(timeframe, Kw.immediate) THEN 2
         ELSE IF \/ Includes(timeframe, Kw.week)
                 \/ Includes(timeframe, Kw.soon) THEN 1
         ELSE 0)
      + (IF /\ DescriptionIncludes(caseData_, "renewal")
            /\ DescriptionIncludes(caseData_, "risk") THEN 2 ELSE 0)

assessUrgency(caseData_) ==
  LET urgencyScore == UrgencyScore(caseData_)
  IN  [level |-> IF urgencyScore >= 7 THEN "critical"
                 ELSE IF urgencyScore >= 5 THEN "high"
                 ELSE IF urgencyScore >= 3 THEN "medium"
                 ELSE "low",
       score |-> urgencyScore]

buildEscalationPath(caseData_, analysis) ==
  LET dealValue == NumOrZero(caseData_.dealValue)
  IN  IF analysis.complexity = "simple"
        THEN <<SalesManager>>
             \o (IF dealValue > 100000 THEN <<RegionalDirector>> ELSE <<>>)
        ELSE <<SalesManager, RegionalDirector>>
             \o (IF dealValue > 250000 \/ analysis.riskLevel = "high"
                   THEN <<VPSales>> ELSE <<>>)
             \o (IF dealValue > 500000 \/ caseData_.category = "legal"
                   THEN <<VPSalesCEO>> ELSE <<>>)

\* routeCase: the routing decision and the analysis it returns.  The
\* recommendations and the rationale texts are derived from the same values
\* and are not kept; complexityScore, which analyzeCaseComplexity computes and
\* routeCase drops, is kept beside the flags computed from it.
RoutingResult(caseData_, analysis, approvalRequirement, teamAssignment, urgencyAssessment) ==
  [success |-> TRUE,
   routing |->
     [primaryApprover |-> approvalRequirement.primaryApprover,
      secondaryApprover |-> approvalRequirement.secondaryApprover,
      team |-> teamAssignment.primaryTeam,
      supportingTeams |-> teamAssignment.supportingTeams,
      approvalLevel |-> approvalRequirement.level,
      expectedTimeline |-> approvalRequirement.timeline,
      urgency |-> urgencyAssessment.level,
      escalationPath |-> buildEscalationPath(caseData_, analysis)],
   analysis |->
     [complexity |-> analysis.complexity,
      complexityScore |-> analysis.complexityScore,
      riskLevel |-> analysis.riskLevel,
      precedentAvailable |-> analysis.precedentAvailable,
      autoApprovable |-> analysis.autoApprovable]]

\* CaseRouter.routeCase: the four steps, then the result built from them.
routeCase(caseData_) ==
  LET analysis == analyzeCaseComplexity(caseData_)
  IN  RoutingResult(caseData_, analysis,
                    determineApprovalLevel(caseData_, analysis),
                    assignTeam(caseData_, analysis),
                    assessUrgency(caseData_))

(***************************************************************************)
(* Compliance Checker (PolicyChecker)                                      *)
(***************************************************************************)

\* An entry of a violations or warnings list: its type and severity.
Finding(type, severity) ==
  [type |-> type, severity |-> severity]

\* The lists a check contributes when its condition holds.
When(cond, list) ==
  IF cond THEN list ELSE <<>>

\* complianceRules.minimumRequirements
minimumValue ==
  [smb |-> 5000, midmarket |-> 15000, enterprise |-> 50000,
   largeEnterprise |-> 250000, globalAccounts |-> 500000]

minimumSeats ==
  [smb |-> 5, midmarket |-> 25, enterprise |-> 100,
   largeEnterprise |-> 500, globalAccounts |-> 1000]

\* PolicyChecker.inferSegment
inferSegment(caseData_) ==
  LET dealValue == NumOrZero(caseData_.dealValue)
      customerInfo == ToLowerCase(caseData_.customerInfo)
      Mentions(k) == \/ DescriptionIncludes(caseData_, k)
                     \/ Includes(customerInfo, Kw[k])
  IN  IF Mentions("smb") THEN "smb"
      ELSE IF Mentions("midmarket") THEN "midmarket"
      ELSE IF Mentions("enterprise") THEN "enterprise"
      ELSE IF Mentions("global") THEN "globalAccounts"
      ELSE IF dealValue >= 500000 THEN "globalAccounts"
      ELSE IF dealValue >= 250000 THEN "largeEnterprise"
      ELSE IF dealValue >= 50000 THEN "enterprise"
      ELSE IF dealValue >= 15000 THEN "midmarket"
      ELSE "smb"

\* PolicyChecker.inferDealType
inferDealType(caseData_) ==
  LET D(k) == DescriptionIncludes(caseData_, k)
      title == ToLowerCase(caseData_.title)
  IN  IF D("renewal") \/ Includes(title, Kw.renewal)
        THEN "renewal"
      ELSE IF \/ D("addOn")
              \/ D("addon")
              \/ Includes(title, Kw.addOn)
        THEN "addon"
      ELSE IF D("upsell") \/ Includes(title, Kw.upsell)
        THEN "upsell"
      ELSE "newBusiness"

\* The two verdicts exchanged: a violation between the auto-approved and the
\* maximum discount, a warning above the maximum.
DiscountVerdict_Exchanged(discountPercent, policy) ==
  IF discountPercent > Pct(policy.max)
    THEN [score |-> 70,
          violations |-> <<>>,
          warnings |-> <<Finding("approval_required", "medium")>>]
  ELSE IF discountPercent > Pct(policy.autoApproved)
    THEN [score |-> 20,
          violations |-> <<Finding("discount_limit_exceeded", "high")>>,
          warnings |-> <<>>]
  ELSE [score |-> 100, violations |-> <<>>, warnings |-> <<>>]

\* The score and findings of discountCompliance once a policy is found:
\* above the maximum, above the auto-approved limit, or within it.
DiscountVerdict(discountPercent, policy) ==
  IF discountPercent > Pct(policy.max)
    THEN [score |-> 20,
          violations |-> <<Finding("discount_limit_exceeded", "high")>>,
          warnings |-> <<>>]
  ELSE IF discountPercent > Pct(policy.autoApproved)
    THEN [score |-> 70,
          violations |-> <<>>,
          warnings |-> <<Finding("approval_required", "medium")>>]
  ELSE [score |-> 100, violations |-> <<>>, warnings |-> <<>>]

discountCompliance(caseData_) ==
  IF caseData_.discountRequested = 0 \/ caseData_.category # "pricing"
    THEN [score |-> 100, violations |-> <<>>, warnings |-> <<>>,
          recommendations |-> <<>>]
  ELSE
    LET discountPercent == caseData_.discountRequested
        policy == getDiscountPolicy(inferDealType(caseData_),
                                    inferSegment(caseData_), "namer")
    IN  IF policy = NoPolicy
          THEN [score |-> 100, violations |-> <<>>,
                warnings |-> <<Finding("policy_lookup", "medium")>>,
                recommendations |-> <<>>]
          ELSE LET verdict == DiscountVerdict(discountPercent, policy)
               IN  [score |-> verdict.score,
                    violations |-> verdict.violations,
                    warnings |-> verdict.warnings,
                    recommendations |->
                      When(policy.regionalAdjustment > 0,
                           <<"regional_adjustment">>)]

\* Length of the run of white space that starts at position i of s.
RECURSIVE SpaceRun(_, _)
SpaceRun(s, i) ==
  IF i <= Len(s) /\ IsSpace(s[i]) THEN 1 + SpaceRun(s, i + 1) ELSE 0

\* description.match(/(\d+)\s*seats?/): the number captured by the leftmost
\* match, NaN when there is no match.
SeatMatch(description) ==
  LET MatchesAt(i) ==
        /\ IsDigit(description[i])
        /\ LET afterDigits == i + DigitRun(description, i)
               afterSpaces == afterDigits + SpaceRun(description, afterDigits)
           IN  /\ afterSpaces + Len(Kw.seat) - 1 <= Len(description)
               /\ SubSeq(description, afterSpaces,
                         afterSpaces + Len(Kw.seat) - 1) = Kw.seat
      starts == {i \in 1..Len(description) : MatchesAt(i)}
  IN  IF starts = {} THEN NaN
      ELSE LET i == CHOOSE k \in starts : \A h \in starts : k <= h
           IN  DigitsValue(SubSeq(description, i,
                                  i + DigitRun(description, i) - 1))

\* The seats that each description of the model asks for, computed once.
descriptionSeats ==
  [d \in Descriptions |-> SeatMatch(ToLowerCase(d))]

minimumRequirements(caseData_) ==
  LET segment == inferSegment(caseData_)
      dealValue == NumOrZero(caseData_.dealValue)
      dealType == inferDealType(caseData_)
      belowValue == dealValue > 0 /\ dealValue < minimumValue[segment]
      requestedSeats == descriptionSeats[caseData_.description]
      belowSeats == requestedSeats # NaN /\ requestedSeats < minimumSeats[segment]
  IN  IF dealType = "addon"
        THEN [score |-> 100, violations |-> <<>>, warnings |-> <<>>,
              recommendations |-> <<"addon_exemption">>]
        ELSE [score |-> IF belowValue \/ belowSeats THEN 30 ELSE 100,
              violations |->
                When(belowValue, <<Finding("minimum_value", "high")>>)
                \o When(belowSeats, <<Finding("minimum_seats", "high")>>),
              warnings |-> <<>>,
              recommendations |-> <<>>]

approvalWorkflow(caseData_) ==
  LET discountPercent == NumOrZero(caseData_.discountRequested)
      dealValue == NumOrZero(caseData_.dealValue)
      both == discountPercent > 0 /\ dealValue > 0
      approvalReq == getApprovalRequirement(discountPercent, dealValue)
  IN  [score |-> 100,
       violations |-> <<>>,
       warnings |->
         When(dealValue > 500000, <<Finding("high_value_deal", "medium")>>),
       recommendations |->
         When(both /\ approvalReq.discountApproval # NoEntry,
              <<"approval_path">>)
         \o When(both /\ approvalReq.sizeApproval # NoEntry
                      /\ approvalReq.sizeApproval.approver
                           # (IF approvalReq.discountApproval = NoEntry
                                THEN Undefined
                                ELSE approvalReq.discountApproval.approver),
                 <<"dual_approval">>)]

dealStructure(caseData_) ==
  LET D(k) == DescriptionIncludes(caseData_, k)
      nonStandard == \/ D("paymentTerms")
                     \/ D("net60")
                     \/ D("net90")
      multiYear == \/ D("multiYear")
                   \/ D("threeYear")
                   \/ D("multipleYears")
      nonCash == \/ D("equity")
                 \/ D("stock")
                 \/ D("barter")
  IN  [score |-> IF nonCash THEN 10 ELSE IF nonStandard THEN 80 ELSE 100,
       violations |-> When(nonCash, <<Finding("non_cash_payment", "high")>>),
       warnings |-> When(nonStandard, <<Finding("payment_terms", "medium")>>),
       recommendations |-> When(multiYear, <<"multi_year_terms">>)]

competitivePolicy(caseData_) ==
  LET D(k) == DescriptionIncludes(caseData_, k)
      isCompetitive == \/ Len(Trim(caseData_.competitorInfo)) > 0
                       \/ D("competitive")
                       \/ D("competitor")
  IN  [score |-> 100,
       violations |-> <<>>,
       warnings |-> <<>>,
       recommendations |->
         When(isCompetitive,
              <<"competitive_discount", "competitive_documentation">>)
         \o When(isCompetitive /\ caseData_.priority = "critical",
                 <<"expedited_approval">>)]

pilotProgramRules(caseData_) ==
  LET D(k) == DescriptionIncludes(caseData_, k)
      isPilot == \/ D("pilot")
                 \/ D("trial")
                 \/ D("poc")
      isExtended == \/ D("sixMonth")
                    \/ D("extended")
                    \/ D("long")
  IN  [score |-> IF isPilot /\ isExtended THEN 70 ELSE 100,
       violations |-> <<>>,
       warnings |->
         When(isPilot /\ isExtended, <<Finding("extended_pilot", "medium")>>),
       recommendations |-> When(isPilot, <<"pilot_duration">>)]

paymentTerms(caseData_) ==
  LET D(k) == DescriptionIncludes(caseData_, k)
      net60 == D("net60")
      beyond == D("net90") \/ D("net120")
  IN  [score |-> IF beyond THEN 40 ELSE IF net60 THEN 80 ELSE 100,
       violations |-> When(beyond, <<Finding("excessive_terms", "high")>>),
       warnings |-> When(net60, <<Finding("extended_terms", "medium")>>),
       recommendations |-> <<>>]

technicalCompliance(caseData_) ==
  LET D(k) == DescriptionIncludes(caseData_, k)
      applicable == caseData_.category = "technical"
      customDev == \/ D("custom")
                   \/ D("integration")
                   \/ D("api")
      securityReq == \/ D("security")
                     \/ D("compliance")
                     \/ D("soc")
                     \/ D("gdpr")
  IN  [score |-> 100,
       violations |-> <<>>,
       warnings |->
         When(applicable /\ customDev,
              <<Finding("custom_development", "medium")>>),
       recommendations |->
         When(applicable /\ customDev, <<"development_premium">>)
         \o When(applicable /\ securityReq, <<"security_review">>)]

legalCompliance(caseData_) ==
  LET D(k) == DescriptionIncludes(caseData_, k)
      applicable == caseData_.category = "legal"
      contractChange == \/ D("contract")
                        \/ D("terms")
                        \/ D("msa")
      privacyReq == \/ D("gdpr")
                    \/ D("privacy")
                    \/ D("dataResidency")
  IN  [score |-> IF applicable /\ contractChange THEN 60 ELSE 100,
       violations |-> <<>>,
       warnings |->
         When(applicable /\ contractChange,
              <<Finding("contract_review", "high")>>),
       recommendations |->
         When(applicable /\ privacyReq, <<"privacy_compliance">>)]

\* this.complianceChecks, in the order checkCompliance runs them.
complianceChecks ==
  <<"discountCompliance", "minimumRequirements", "approvalWorkflow",
    "dealStructure", "competitivePolicy", "pilotProgramRules",
    "paymentTerms", "technicalCompliance", "legalCompliance">>

\* this[checkType](caseData)
RunCheck(checkType, caseData_) ==
  CASE checkType = "discountCompliance"  -> discountCompliance(caseData_)
    [] checkType = "minimumRequirements" -> minimumRequirements(caseData_)
    [] checkType = "approvalWorkflow"    -> approvalWorkflow(caseData_)
    [] checkType = "dealStructure"       -> dealStructure(caseData_)
    [] checkType = "competitivePolicy"   -> competitivePolicy(caseData_)
    [] checkType = "pilotProgramRules"   -> pilotProgramRules(caseData_)
    [] checkType = "paymentTerms"        -> paymentTerms(caseData_)
    [] checkType = "technicalCompliance" -> technicalCompliance(caseData_)
    [] checkType = "legalCompliance"     -> legalCompliance(caseData_)

\* The score of the check that ran last replaces the running score.
AdjustScore_LastWins(score, checkScore) ==
  checkScore

\* "Adjust compliance score": how one check's score enters the running score.
AdjustScore(score, checkScore) ==
  Min(score, checkScore)

\* "Aggregate results": the running results with one check's result added.
AggregateResults(results, checkResult) ==
  [score |-> AdjustScore(results.score, checkResult.score),
   violations |-> results.violations \o checkResult.violations,
   warnings |-> results.warnings \o checkResult.warnings,
   recommendations |-> results.recommendations \o checkResult.recommendations,
   complianceChecks |-> Append(results.complianceChecks, checkResult)]

\* inferSegment lower-cases the description and the customer information,
\* inferDealType the description and the title, before anything else.
InferSegmentThrows(caseData_) ==
  caseData_.description = NotAString \/ caseData_.customerInfo = NotAString

InferDealTypeThrows(caseData_) ==
  caseData_.description = NotAString \/ caseData_.title = NotAString

\* this[checkType](caseData) raises a TypeError: the check calls a method of
\* String on a field that holds no string.
CheckThrows(checkType, caseData_) ==
  CASE checkType = "discountCompliance" ->
         /\ caseData_.discountRequested # 0
         /\ caseData_.category = "pricing"
         /\ InferSegmentThrows(caseData_) \/ InferDealTypeThrows(caseData_)
    [] checkType = "minimumRequirements" ->
         InferSegmentThrows(caseData_) \/ InferDealTypeThrows(caseData_)
    [] checkType = "approvalWorkflow" -> FALSE
    [] checkType = "competitivePolicy" ->
         \/ caseData_.competitorInfo = NotAString
         \/ caseData_.description = NotAString
    [] OTHER -> caseData_.description = NotAString

\* The catch block inside the loop of checkCompliance: the running results
\* with the warning that the check could not be completed.
CheckFailed(results, checkType) ==
  [score |-> results.score,
   violations |-> results.violations,
   warnings |-> Append(results.warnings,
                       [type |-> "system", severity |-> "medium",
                        message |-> "Unable to complete check",
                        check |-> checkType]),
   recommendations |-> results.recommendations,
   complianceChecks |-> results.complianceChecks]

\* One turn of the loop of checkCompliance.
CheckStep(results, checkType, caseData_) ==
  IF CheckThrows(checkType, caseData_)
    THEN CheckFailed(results, checkType)
    ELSE AggregateResults(results, RunCheck(checkType, caseData_))

\* The loop of checkCompliance over the first n checks: the running results.
RECURSIVE Aggregate(_, _)
Aggregate(caseData_, n) ==
  IF n = 0
    THEN [score |-> 100, violations |-> <<>>, warnings |-> <<>>,
          recommendations |-> <<>>, complianceChecks |-> <<>>]
    ELSE CheckStep(Aggregate(caseData_, n - 1), complianceChecks[n], caseData_)

\* Warnings alone leave the result compliant.
determineOverallCompliance_WarningsIgnored(results) ==
  IF Len(results.violations) > 0
    THEN IF \E i \in 1..Len(results.violations) :
              results.violations[i].severity = "high"
           THEN "non_compliant" ELSE "conditional"
  ELSE "compliant"

\* PolicyChecker.determineOverallCompliance
determineOverallCompliance(results) ==
  IF Len(results.violations) > 0
    THEN IF \E i \in 1..Len(results.violations) :
              results.violations[i].severity = "high"
           THEN "non_compliant" ELSE "conditional"
  ELSE IF Len(results.warnings) > 0 THEN "conditional"
  ELSE "compliant"

\* checkCompliance: the aggregated results with the overall status.  The
\* approvalRequirements, precedentAnalysis and riskAssessment that the code
\* attaches are derived from the same lists and are not kept.
ComplianceResult(results) ==
  [success |-> TRUE,
   compliance |->
     [overallCompliance |-> determineOverallCompliance(results),
      score |-> results.score,
      violations |-> results.violations,
      warnings |-> results.warnings,
      recommendations |-> results.recommendations,
      complianceChecks |-> results.complianceChecks]]

\* assessRisk, which runs after the checks and outside their try blocks,
\* lower-cases the description unless the competitor information is truthy.
AssessRiskThrows(caseData_) ==
  caseData_.competitorInfo = <<>> /\ caseData_.description = NotAString

\* PolicyChecker.generateFallbackCompliance
generateFallbackCompliance ==
  [overallCompliance |-> "unknown", score |-> 50, violations |-> <<>>,
   warnings |-> <<[type |-> "system_error", severity |-> "medium"]>>,
   recommendations |-> <<"manual_review">>]

\* PolicyChecker.checkCompliance: the checks run in order, each in a try
\* block of its own, then the overall status and the risk assessment; the
\* outer catch block answers with the fallback.
checkCompliance(caseData_) ==
  IF AssessRiskThrows(caseData_)
    THEN [success |-> FALSE, error |-> "TypeError",
          fallback |-> generateFallbackCompliance]
    ELSE ComplianceResult(Aggregate(caseData_, Len(complianceChecks)))

(***************************************************************************)
(* Scenario Matcher (realScenarios.js)                                     *)
(***************************************************************************)

\* customerScenarios: the catalog, in the order it is listed.  caseCategory is
\* caseInfo.category, Absent for a scenario with no caseInfo.
customerScenarios ==
  << [id |-> "compensation-missing", category |-> "Compensation",
      requiresCase |-> FALSE, caseCategory |-> Absent,
      keywords |->
        << <<"c","o","m","p","e","n","s","a","t","i","o","n">>,  \* compensation
           <<"m","i","s","s","i","n","g">>,  \* missing
           <<"c","o","m","m","i","s","s","i","o","n">>,  \* commission
           <<"b","o","o","k","i","n","g","s">>,  \* bookings
           <<"o","p","p","o","r","t","u","n","i","t","y">> >>],  \* opportunity
     [id |-> "find-invoice", category |-> "Billing",
      requiresCase |-> FALSE, caseCategory |-> Absent,
      keywords |->
        << <<"i","n","v","o","i","c","e">>,  \* invoice
           <<"c","u","s","t","o","m","e","r">>,  \* customer
           <<"b","i","l","l","i","n","g">>,  \* billing
           <<"d","o","w","n","l","o","a","d">>,  \* download
           <<"d","y","n","a","m","i","c","s">> >>],  \* dynamics
     [id |-> "tearup-ep", category |-> "Deal Structure",
      requiresCase |-> TRUE, caseCategory |-> "Deal Structure",
      keywords |->
        << <<"t","e","a","r"," ","u","p">>,  \* tear up
           <<"t","e","a","r","u","p">>,  \* tearup
           <<"e","p">>,  \* ep
           <<"e","l","i","g","i","b","i","l","i","t","y">>,  \* eligibility
           <<"r","o","e">> >>],  \* roe
     [id |-> "hep-pricing", category |-> "Pricing",
      requiresCase |-> TRUE, caseCategory |-> "Pricing",
      keywords |->
        << <<"h","e","p">>,  \* hep
           <<"p","r","i","c","i","n","g">>,  \* pricing
           <<"s","o","l","u","t","i","o","n"," ","b","u","i","l","d","e","r">>,  \* solution builder
           <<"q","u","o","t","e">>,  \* quote
           <<"s","p","e","n","d">> >>],  \* spend
     [id |-> "legal-terms", category |-> "Legal",
      requiresCase |-> TRUE, caseCategory |-> "Legal",
      keywords |->
        << <<"l","e","g","a","l">>,  \* legal
           <<"t","e","r","m","s">>,  \* terms
           <<"c","o","n","t","r","a","c","t">>,  \* contract
           <<"n","o","n","-","s","t","a","n","d","a","r","d">>,  \* non-standard
           <<"o","r","d","e","r"," ","f","o","r","m">> >>],  \* order form
     [id |-> "opportunity-stage", category |-> "System Issues",
      requiresCase |-> TRUE, caseCategory |-> "System Issues",
      keywords |->
        << <<"s","t","a","g","e">>,  \* stage
           <<"o","p","p","o","r","t","u","n","i","t","y">>,  \* opportunity
           <<"e","r","r","o","r">>,  \* error
           <<"c","l","o","s","e","d"," ","a","d","m","i","n">>,  \* closed admin
           <<"d","i","s","e","n","g","a","g","e","d">> >>] >>  \* disengaged

\* The intents table of detectIntent, in key order.
intentKeywords ==
  << [intent |-> "pricing_help",
      keywords |->
        << <<"p","r","i","c","i","n","g">>,  \* pricing
           <<"d","i","s","c","o","u","n","t">>,  \* discount
           <<"c","o","s","t">>,  \* cost
           <<"p","r","i","c","e">>,  \* price
           <<"q","u","o","t","e">>,  \* quote
           <<"h","e","p">> >>],  \* hep
     [intent |-> "case_creation",
      keywords |->
        << <<"c","r","e","a","t","e"," ","c","a","s","e">>,  \* create case
           <<"n","e","e","d"," ","a","p","p","r","o","v","a","l">>,  \* need approval
           <<"e","s","c","a","l","a","t","e">>,  \* escalate
           <<"s","u","b","m","i","t">> >>],  \* submit
     [intent |-> "compensation_issue",
      keywords |->
        << <<"c","o","m","p","e","n","s","a","t","i","o","n">>,  \* compensation
           <<"c","o","m","m","i","s","s","i","o","n">>,  \* commission
           <<"m","i","s","s","i","n","g">>,  \* missing
           <<"b","o","o","k","i","n","g","s">> >>],  \* bookings
     [intent |-> "invoice_help",
      keywords |->
        << <<"i","n","v","o","i","c","e">>,  \* invoice
           <<"b","i","l","l","i","n","g">>,  \* billing
           <<"p","a","y","m","e","n","t">>,  \* payment
           <<"r","e","c","e","i","p","t">> >>],  \* receipt
     [intent |-> "system_issue",
      keywords |->
        << <<"e","r","r","o","r">>,  \* error
           <<"b","r","o","k","e","n">>,  \* broken
           <<"n","o","t"," ","w","o","r","k","i","n","g">>,  \* not working
           <<"s","y","s","t","e","m">>,  \* system
           <<"b","u","g">> >>],  \* bug
     [intent |-> "legal_help",
      keywords |->
        << <<"l","e","g","a","l">>,  \* legal
           <<"c","o","n","t","r","a","c","t">>,  \* contract
           <<"t","e","r","m","s">>,  \* terms
           <<"a","g","r","e","e","m","e","n","t">> >>],  \* agreement
     [intent |-> "deal_structure",
      keywords |->
        << <<"d","e","a","l"," ","s","t","r","u","c","t","u","r","e">>,  \* deal structure
           <<"t","e","r","m","s">>,  \* terms
           <<"p","a","y","m","e","n","t">>,  \* payment
           <<"t","e","a","r"," ","u","p">> >>],  \* tear up
     [intent |-> "general_question",
      keywords |->
        << <<"h","e","l","p">>,  \* help
           <<"h","o","w">>,  \* how
           <<"w","h","a","t">>,  \* what
           <<"w","h","e","n">>,  \* when
           <<"w","h","y">>,  \* why
           <<"c","a","n"," ","y","o","u">> >>],  \* can you
     [intent |-> "status_check",
      keywords |->
        << <<"s","t","a","t","u","s">>,  \* status
           <<"p","r","o","g","r","e","s","s">>,  \* progress
           <<"u","p","d","a","t","e">>,  \* update
           <<"w","h","e","n"," ","w","i","l","l">> >>],  \* when will
     [intent |-> "urgent_request",
      keywords |->
        << <<"u","r","g","e","n","t">>,  \* urgent
           <<"a","s","a","p">>,  \* asap
           <<"i","m","m","e","d","i","a","t","e","l","y">>,  \* immediately
           <<"e","m","e","r","g","e","n","c","y">> >>] >>  \* emergency

\* The utterances the model sends, in the order listed.
utteranceList ==
  \* "Can you help me with my HEP pricing in Solution Builder?" first
  << <<"C","a","n"," ","y","o","u"," ","h","e","l","p"," ","m","e"," ","w","i",
       "t","h"," ","m","y"," ","H","E","P"," ","p","r","i","c","i","n","g"," ",
       "i","n"," ","S","o","l","u","t","i","o","n"," ","B","u","i","l","d","e",
       "r","?">>,
     \* "help me access dynamics"
     <<"h","e","l","p"," ","m","e"," ","a","c","c","e","s","s"," ","d","y","n",
       "a","m","i","c","s">>,
     \* "Please Help me access Dynamics"
     <<"P","l","e","a","s","e"," ","H","e","l","p"," ","m","e"," ","a","c","c",
       "e","s","s"," ","D","y","n","a","m","i","c","s">>,
     \* "invoice billing stage error"
     <<"i","n","v","o","i","c","e"," ","b","i","l","l","i","n","g"," ","s","t",
       "a","g","e"," ","e","r","r","o","r">>,
     \* "stage error and one invoice"
     <<"s","t","a","g","e"," ","e","r","r","o","r"," ","a","n","d"," ","o","n",
       "e"," ","i","n","v","o","i","c","e">>,
     \* "commission on this opportunity"
     <<"c","o","m","m","i","s","s","i","o","n"," ","o","n"," ","t","h","i","s",
       " ","o","p","p","o","r","t","u","n","i","t","y">>,
     \* "LEGAL TERMS"
     <<"L","E","G","A","L"," ","T","E","R","M","S">>,
     \* "I need approval to escalate"
     <<"I"," ","n","e","e","d"," ","a","p","p","r","o","v","a","l"," ","t","o",
       " ","e","s","c","a","l","a","t","e">>,
     \* "what is the weather"
     <<"w","h","a","t"," ","i","s"," ","t","h","e"," ","w","e","a","t","h","e",
       "r">>,
     \* "a 15% discount"
     <<"a"," ","1","5","%"," ","d","i","s","c","o","u","n","t">>,
     \* "payment status"
     <<"p","a","y","m","e","n","t"," ","s","t","a","t","u","s">>,
     \* "system is broken"
     <<"s","y","s","t","e","m"," ","i","s"," ","b","r","o","k","e","n">>,
     \* "agreement update"
     <<"a","g","r","e","e","m","e","n","t"," ","u","p","d","a","t","e">>,
     \* "what do i do"
     <<"w","h","a","t"," ","d","o"," ","i"," ","d","o">>,
     \* "my customer Acme Corp"
     <<"m","y"," ","c","u","s","t","o","m","e","r"," ","A","c","m","e"," ","C","o","r","p">>,
     \* ""
     <<>> >>

\* The keywords of a scenario that occur in the lower-cased input.
KeywordHits(scenario, input) ==
  {k \in 1..Len(scenario.keywords) :
     Includes(input, ToLowerCase(scenario.keywords[k]))}

\* The running best is replaced also by an equal count.
RECURSIVE ReduceBest_LaterOnTie(_, _, _)
ReduceBest_LaterOnTie(ms, best, input) ==
  IF ms = <<>> THEN best
  ELSE LET current == Head(ms)
           bestScore == Cardinality(KeywordHits(customerScenarios[best], input))
           currentScore ==
             Cardinality(KeywordHits(customerScenarios[current], input))
       IN  ReduceBest_LaterOnTie(Tail(ms),
                                 IF currentScore >= bestScore
                                   THEN current ELSE best,
                                 input)

\* The value of matches.reduce(...) over the catalog positions ms (in
\* catalog order): the running best is replaced only by a strictly higher
\* count.
RECURSIVE ReduceBest(_, _, _)
ReduceBest(ms, best, input) ==
  IF ms = <<>> THEN best
  ELSE LET current == Head(ms)
           bestScore == Cardinality(KeywordHits(customerScenarios[best], input))
           currentScore ==
             Cardinality(KeywordHits(customerScenarios[current], input))
       IN  ReduceBest(Tail(ms),
                      IF currentScore > bestScore THEN current ELSE best,
                      input)

\* Catalog positions 1..n that pass the filter, in catalog order.
RECURSIVE MatchingPositions(_, _)
MatchingPositions(n, input) ==
  IF n = 0 THEN <<>>
  ELSE MatchingPositions(n - 1, input)
       \o (IF KeywordHits(customerScenarios[n], input) # {}
             THEN <<n>> ELSE <<>>)

\* findMatchingScenario(userInput): the catalog position of the scenario
\* returned, 0 for null.
findMatchingScenario(userInput) ==
  LET input == ToLowerCase(userInput)
      matches == MatchingPositions(Len(customerScenarios), input)
  IN  IF Len(matches) > 1 THEN ReduceBest(Tail(matches), Head(matches), input)
      ELSE IF Len(matches) = 1 THEN matches[1]
      ELSE 0

(***************************************************************************)
(* Pipeline entry point (SimpleAiService)                                  *)
(***************************************************************************)

\* detectIntent(input): the first intent, in key order, with a keyword that
\* occurs in the input; general_question when none does.
detectIntent(input) ==
  LET hits == {i \in 1..Len(intentKeywords) :
                 \E k \in 1..Len(intentKeywords[i].keywords) :
                   Includes(input, intentKeywords[i].keywords[k])}
  IN  IF hits = {} THEN "general_question"
      ELSE intentKeywords[CHOOSE i \in hits : \A h \in hits : i <= h].intent

\* A response as the caller sees it: its type, the scenario it answers with
\* (Absent when none) and the types of the actions attached.
Response(responseType, scenarioId, actions, requiresCase) ==
  [success |-> TRUE, responseType |-> responseType, scenarioId |-> scenarioId,
   actions |-> actions, requiresCase |-> requiresCase]

\* An action of a response: its type and the case category it carries.
Action(type, category) ==
  [type |-> type, category |-> category]

\* handleScenarioMatch
handleScenarioMatch(scenario) ==
  Response("scenario_match", scenario.id,
           IF scenario.requiresCase
             THEN <<Action("create_case", scenario.caseCategory)>>
             ELSE <<>>,
           scenario.requiresCase)

\* handleContextualGeneralQuery
handleContextualGeneralQuery(messageText_) ==
  LET input == ToLowerCase(messageText_)
  IN  IF \/ Includes(input, <<"h","e","l","p">>)
         \/ /\ Includes(input, <<"w","h","a","t">>)
            /\ Includes(input, <<"d","o">>)
        THEN Response("category_overview", Absent, <<>>, FALSE)
        ELSE Response("contextual_general", Absent, <<>>, FALSE)

\* handleIntelligentResponse: the generic responder, by detected intent.
handleIntelligentResponse(messageText_, intent) ==
  CASE intent = "pricing_help" ->
         Response("intelligent_pricing", Absent, <<>>, FALSE)
    [] intent = "compensation_issue" ->
         Response("intelligent_compensation", Absent, <<>>, FALSE)
    [] intent = "invoice_help" ->
         Response("intelligent_invoice", Absent,
                  <<Action("help_dynamics_access", Absent)>>, FALSE)
    [] intent = "system_issue" ->
         Response("intelligent_system", Absent, <<>>, FALSE)
    [] intent = "legal_help" ->
         Response("intelligent_legal", Absent, <<>>, FALSE)
    [] intent = "status_check" ->
         Response("status_check", Absent, <<>>, FALSE)
    [] intent = "case_creation" ->
         Response("case_suggestion", Absent,
                  <<Action("create_case", "General")>>, TRUE)
    [] OTHER -> handleContextualGeneralQuery(messageText_)

\* An exception raised where a value was expected.
Raises ==
  <<"TypeError">>

IsLetter(c) ==
  \E i \in 1..26 : UpperCase[i] = c \/ LowerCase[i] = c

\* The last position of the longest run of letters that starts at position i
\* of the text, i - 1 when no letter stands there.
LetterRunEnd(text, i) ==
  CHOOSE j \in (i - 1)..Len(text) :
    /\ \A k \in i..j : IsLetter(text[k])
    /\ j = Len(text) \/ ~IsLetter(text[j + 1])

\* The same for a run of white space (\s+).
SpaceRunEnd(text, i) ==
  CHOOSE j \in (i - 1)..Len(text) :
    /\ \A k \in i..j : IsSpace(text[k])
    /\ j = Len(text) \/ ~IsSpace(text[j + 1])

\* [A-Z][a-z]+ under flag i at position i of the text: the last position of
\* the word, 0 when fewer than two letters stand there.
WordEnd(text, i) ==
  IF LetterRunEnd(text, i) >= i + 1 THEN LetterRunEnd(text, i) ELSE 0

\* (?:\s+[A-Z][a-z]+)* after a word that ends at position e: the last
\* position of the last word taken.
RECURSIVE NameEnd(_, _)
NameEnd(text, e) ==
  IF /\ SpaceRunEnd(text, e + 1) >= e + 1
     /\ WordEnd(text, SpaceRunEnd(text, e + 1) + 1) # 0
    THEN NameEnd(text, WordEnd(text, SpaceRunEnd(text, e + 1) + 1))
    ELSE e

\* The words that the customer pattern accepts before a name.
customerWords ==
  {<<"c","u","s","t","o","m","e","r">>,
   <<"c","l","i","e","n","t">>,
   <<"a","c","c","o","u","n","t">>}

\* The group captured by the customer pattern when it is matched at position
\* i of the text, Null when it does not match there.
CustomerMatchAt(text, i) ==
  LET words == {w \in customerWords :
                  /\ i + Len(w) - 1 <= Len(text)
                  /\ ToLowerCase(SubSeq(text, i, i + Len(w) - 1)) = w}
  IN  IF words = {} THEN Null
      ELSE LET afterWord == i + Len(CHOOSE w \in words : TRUE)
               first == SpaceRunEnd(text, afterWord) + 1
           IN  IF first > afterWord /\ WordEnd(text, first) # 0
                 THEN SubSeq(text, first, NameEnd(text, WordEnd(text, first)))
                 ELSE Null

\* message.content.match(pattern): the group captured by the leftmost match,
\* Null when there is none; a content that is no string has no match method.
CustomerMatch(content) ==
  IF content = NotAString THEN Raises
  ELSE LET hits == {i \in 1..Len(content) : CustomerMatchAt(content, i) # Null}
       IN  IF hits = {} THEN Null
           ELSE CustomerMatchAt(content,
                                CHOOSE i \in hits : \A h \in hits : i <= h)

\* this.conversationHistory.slice(-5)
RecentMessages(conversationHistory_) ==
  IF Len(conversationHistory_) <= 5 THEN conversationHistory_
  ELSE SubSeq(conversationHistory_, Len(conversationHistory_) - 4,
              Len(conversationHistory_))

\* The loop of getCustomerFromContext over the recent messages.
RECURSIVE FirstCustomer(_)
FirstCustomer(recentMessages) ==
  IF recentMessages = <<>> THEN Null
  ELSE IF Head(recentMessages).customerMatch # Null
    THEN Head(recentMessages).customerMatch
  ELSE FirstCustomer(Tail(recentMessages))

\* getCustomerFromContext()
getCustomerFromContext(conversationHistory_) ==
  FirstCustomer(RecentMessages(conversationHistory_))

\* The customer named when the history names none.
defaultCustomerName ==
  <<"P","e","l","l","e","g","r","i","n","o"," ","E","2","E"," ","T","e","s","t"," ","2","f","c","o","l","3","x","s","i","8","l","j","g">>

\* handleDynamicsAccessHelp: the response names a customer.
handleDynamicsAccessHelp(customerFromContext) ==
  [success |-> TRUE, responseType |-> "dynamics_access_help",
   scenarioId |-> Absent, actions |-> <<Action("open_dynamics", Absent)>>,
   requiresCase |-> FALSE,
   customerName |-> IF customerFromContext = Null
                      THEN defaultCustomerName ELSE customerFromContext]

\* The phrase looked for in the message as typed, without lower-casing it.
IsDynamicsAccessRequest_AsTyped(messageText_) ==
  Includes(messageText_,
           <<"h","e","l","p"," ","m","e"," ","a","c","c","e","s","s"," ",
             "d","y","n","a","m","i","c","s">>)

\* The test that processMessage makes before it matches scenarios.
IsDynamicsAccessRequest(messageText_) ==
  Includes(ToLowerCase(messageText_),
           <<"h","e","l","p"," ","m","e"," ","a","c","c","e","s","s"," ",
             "d","y","n","a","m","i","c","s">>)

\* The catch block of AIService.processMessage, whose failure result carries
\* an apology as its response.
processMessage_Apology(messageText_, customerFromContext) ==
  [success |-> FALSE, error |-> "TypeError",
   response |-> "I apologize, but I'm experiencing technical difficulties."]

\* processMessage(messageText): the response returned for a message, where
\* customerFromContext is what getCustomerFromContext() yields on the history
\* with the message pushed.  A message that is no string raises a TypeError
\* when it is lower-cased, as does the search of a history that holds one, and
\* the catch block returns the failure result.
processMessage(messageText_, customerFromContext) ==
  IF messageText_ = NotAString
    THEN [success |-> FALSE, error |-> "TypeError", fallback |-> TRUE]
  ELSE IF IsDynamicsAccessRequest(messageText_)
    THEN IF customerFromContext = Raises
           THEN [success |-> FALSE, error |-> "TypeError", fallback |-> TRUE]
           ELSE handleDynamicsAccessHelp(customerFromContext)
  ELSE LET intent == detectIntent(ToLowerCase(messageText_))
           scenario == findMatchingScenario(messageText_)
       IN  IF scenario # 0
             THEN handleScenarioMatch(customerScenarios[scenario])
             ELSE handleIntelligentResponse(messageText_, intent)

(***************************************************************************)
(* Inputs                                                                  *)
(***************************************************************************)

\* Discounts requested run from 0% in steps of 5% up to 5 * MaxDiscountSteps
\* percent; 10.5% is the one value between two discount brackets.
MaxDiscountSteps ==
  7

Discounts ==
  {Pct(5) * i : i \in 0..MaxDiscountSteps} \cup {105}

\* Deal values on both sides of every threshold of the router, the checker and
\* the deal-size brackets.
DealValues ==
  {0, 20000, 60000, 300000, 500000, 600000}

\* "Pricing" is the category that the catalog's scenarios carry; the others
\* are categories of the router's tables.
Categories ==
  {"pricing", "legal", "technical", "competitive", "Pricing"}

Priorities ==
  {"low", "medium", "high", "critical", Absent}

\* "" and "Acme"
CompetitorInfos ==
  {<<>>, <<"A","c","m","e">>}

\* A CaseDraft with the fields that the router and the checker read.
CaseDraft(category, priority, dealValue, discountRequested, competitorInfo, description) ==
  [title |-> <<>>, category |-> category, priority |-> priority,
   description |-> description, customerInfo |-> <<>>,
   dealValue |-> dealValue, discountRequested |-> discountRequested,
   timeframe |-> <<>>, competitorInfo |-> competitorInfo]

CaseDrafts ==
  {CaseDraft(c, p, v, d, ci, de) :
     c \in Categories, p \in Priorities, v \in DealValues, d \in Discounts,
     ci \in CompetitorInfos, de \in Descriptions}

\* The session ids that requests carry in the model.
SessionIds ==
  {"session_a", "session_b"}

\* conversations.get(sessionId) for a session that the map does not hold.
NoContext ==
  [absent |-> TRUE]

\* CaseCreationForm's formData as useState builds it.  dealValue and
\* discountRequested hold the number that the checker and the router read
\* from the field, 0 for the empty field.
emptyForm ==
  [title |-> <<>>, category |-> "pricing", priority |-> "medium",
   description |-> <<>>, businessJustification |-> <<>>,
   customerInfo |-> <<>>, dealValue |-> 0, discountRequested |-> 0,
   timeframe |-> <<>>, competitorInfo |-> <<>>]

\* CaseCreationForm after its first render without initialData: no field is
\* filled in, so the effect sets no timer.
FormIdle ==
  /\ formData = emptyForm
  /\ checkTimer = NoResult
  /\ complianceCheck = NoResult
  /\ routingInfo = NoResult
  /\ isSubmitting = FALSE
  /\ submission = NoResult
  /\ submitted = NoResult

\* ChatInterface as useState builds it.
DialogIdle ==
  /\ messages = <<>>
  /\ isLoading = FALSE
  /\ pendingCalls = {}

\* The components outside the checker, the router and the scenario pipeline
\* before they are used.
AuxIdle ==
  /\ FormIdle
  /\ DialogIdle
  /\ conversations = [sessionId \in SessionIds |-> NoContext]
  /\ now = 0
  /\ lastCall = NoResult
  /\ policyLookup = NoResult
  /\ messageAnalysis = NoResult
  /\ conversation = <<>>

\* The messages processed by the pipeline when it serves two sessions.
MaxHistory ==
  2

(***************************************************************************)
(* The checker and the router applied to case drafts                       *)
(***************************************************************************)

\* The checker's and the router's answers for the drafts of the model, computed
\* once.
\* Drafts with a field that holds no string where a text is expected, among
\* drafts that are well formed.
MalformedDrafts ==
  {[CaseDraft(c, "medium", v, d, ci, de)
      EXCEPT !.customerInfo = cu, !.title = t] :
     c \in {"pricing", "legal"}, v \in {0, 600000}, d \in {0, Pct(15)},
     ci \in CompetitorInfos \cup {NotAString},
     de \in {<<>>, NotAString},
     cu \in {<<>>, NotAString}, t \in {<<>>, NotAString}}

complianceTable ==
  [c \in CaseDrafts \cup MalformedDrafts |-> checkCompliance(c)]

routingTable ==
  [c \in CaseDrafts |-> routeCase(c)]

InitCase ==
  /\ caseData \in CaseDrafts
  /\ compliance = NoResult
  /\ routing = NoResult
  /\ messageText = <<>>
  /\ matched = NoResult
  /\ response = NoResult
  /\ conversationHistory = <<>>
  /\ AuxIdle

\* The checker raises the priority of the draft that it has checked.
DraftAfterCheck_Escalated(caseData_) ==
  [caseData_ EXCEPT
     !.priority = IF @ = "medium" THEN "high" ELSE "critical"]

\* The draft after checkCompliance has read it: the checker and its checks
\* assign to none of its fields.
DraftAfterCheck(caseData_) ==
  caseData_

\* policyChecker.checkCompliance(caseData)
CheckCompliance ==
  /\ compliance = NoResult
  /\ compliance' = complianceTable[caseData]
  /\ caseData' = DraftAfterCheck(caseData)
  /\ UNCHANGED <<routing, chatVars, auxVars>>

\* caseRouter.routeCase(caseData)
RouteCase ==
  /\ routing = NoResult
  /\ routing' = routingTable[caseData]
  /\ UNCHANGED <<caseData, compliance, chatVars, auxVars>>

NextCase ==
  \/ CheckCompliance
  \/ RouteCase

CaseSpec ==
  InitCase /\ [][NextCase]_vars

(***************************************************************************)
(* The pipeline applied to utterances                                      *)
(***************************************************************************)

Utterances ==
  {utteranceList[i] : i \in 1..Len(utteranceList)}

\* The matcher's and the pipeline's answers for the utterances of the model,
\* computed once.
matchTable ==
  [u \in Utterances |-> findMatchingScenario(u)]

\* The messages handed to processMessage: the utterances and a value that is
\* no string.
PipelineMessages ==
  Utterances \cup {NotAString}

\* What the customer pattern finds in the messages of the model, and what
\* getCustomerFromContext can yield on a history of them.
customerMatchTable ==
  [u \in PipelineMessages |-> CustomerMatch(u)]

CustomersFound ==
  {customerMatchTable[u] : u \in PipelineMessages}

responseTable ==
  [u \in PipelineMessages |->
     [c \in CustomersFound |-> processMessage(u, c)]]

InitChat ==
  /\ caseData = CaseDraft("pricing", "medium", 0, 0, <<>>, <<>>)
  /\ compliance = NoResult
  /\ routing = NoResult
  /\ messageText = <<>>
  /\ matched = NoResult
  /\ response = NoResult
  /\ conversationHistory = <<>>
  /\ AuxIdle

\* findMatchingScenario(u), called on its own.
FindScenario(u) ==
  /\ messageText' = u
  /\ matched' = [scenario |-> matchTable[u]]
  /\ response' = NoResult
  /\ UNCHANGED <<caseVars, conversationHistory, auxVars>>

\* simpleAiService.processMessage(u, {sessionId}): the message is pushed on
\* the history and answered.  An entry of the history holds what the customer
\* pattern finds in its content, which is all that is read of it; sessionId
\* is the session of the request that pushed the entry, which the code does
\* not store.
ProcessMessage(sessionId, u) ==
  /\ messageText' = u
  /\ conversationHistory' =
       Append(conversationHistory,
              [sessionId |-> sessionId, customerMatch |-> customerMatchTable[u]])
  /\ response' = responseTable[u][getCustomerFromContext(conversationHistory')]
  /\ matched' = NoResult
  /\ UNCHANGED <<caseVars, auxVars>>

\* The case opened from the create_case action of the response, with that
\* action's category, priority p, no deal value and no discount, is routed.
RouteActionCase(p) ==
  /\ response # NoResult
  /\ response.success
  /\ \E i \in 1..Len(response.actions) :
       /\ response.actions[i].type = "create_case"
       /\ caseData' = CaseDraft(response.actions[i].category, p, 0, 0,
                                <<>>, <<>>)
  /\ routing' = routeCase(caseData')
  /\ compliance' = NoResult
  /\ UNCHANGED <<chatVars, auxVars>>

NextChat ==
  \/ \E u \in Utterances : FindScenario(u)
  \/ \E sessionId \in SessionIds, u \in PipelineMessages :
       /\ Len(conversationHistory) < MaxHistory
       /\ ProcessMessage(sessionId, u)
  \/ \E p \in Priorities : RouteActionCase(p)

ChatSpec ==
  InitChat /\ [][NextChat]_vars

\* processMessage has returned a response, not its failure result.
Answered ==
  response # NoResult /\ response.success

(***************************************************************************)
(* Claims about the Case Router                                            *)
(***************************************************************************)

\* C1: a routed case is marked autoApprovable exactly when its complexity
\* score is at most 2 and its requested discount is at most 10%, and every
\* autoApprovable case is routed with primaryApprover 'Auto-approved',
\* approvalLevel 1 and expectedTimeline 'Immediate'.
C1_AutoApproval ==
  routing # NoResult =>
    /\ routing.analysis.autoApprovable
         <=> /\ routing.analysis.complexityScore <= Pct(2)
             /\ caseData.discountRequested <= Pct(10)
    /\ routing.analysis.autoApprovable
         => /\ routing.routing.primaryApprover = AutoApproved
            /\ routing.routing.approvalLevel = 1
            /\ routing.routing.expectedTimeline = "Immediate"

\* The spec's example (5%, 20000, pricing, low) routed and auto-approved.
C1_Witness ==
  /\ routing # NoResult
  /\ caseData.discountRequested = Pct(5)
  /\ caseData.dealValue = 20000
  /\ caseData.category = "pricing"
  /\ caseData.priority = "low"
  /\ routing.analysis.autoApprovable
  /\ routing.routing.primaryApprover = AutoApproved

\* C2: every routed case of category pricing or legal with dealValue above
\* 500000 has a secondaryApprover.
C2_HighValueSecondApprover ==
  ( /\ routing # NoResult
    /\ caseData.dealValue > 500000
    /\ caseData.category \in {"pricing", "legal"} )
  => routing.routing.secondaryApprover # Null

\* The level that routingRules.approvalLevels gives to an approver's title.
AuthorityOf(title) ==
  LET i == CHOOSE k \in 1..Len(approvalLevels) : approvalLevels[k].title = title
  IN  approvalLevels[i].level

\* C3: when the ROE lookup of a routed case that is not auto-approvable gives
\* a discount-based and a size-based approver that differ, the routed
\* primaryApprover is the one of the two with the higher authority and the
\* routed approvalLevel is below the level of neither.
C3_HigherAuthorityWins ==
  LET discountPercent == NumOrZero(caseData.discountRequested)
      dealValue == NumOrZero(caseData.dealValue)
      approvalReq == getApprovalRequirement(discountPercent, dealValue)
      byDiscount == approvalReq.discountApproval.approver
      bySize == approvalReq.sizeApproval.approver
  IN  ( /\ routing # NoResult
        /\ ~routing.analysis.autoApprovable
        /\ discountPercent > 0 /\ dealValue > 0
        /\ approvalReq.discountApproval # NoEntry
        /\ approvalReq.sizeApproval # NoEntry
        /\ byDiscount # bySize )
      => /\ routing.routing.primaryApprover
              = (IF AuthorityOf(byDiscount) >= AuthorityOf(bySize)
                   THEN byDiscount ELSE bySize)
         /\ routing.routing.approvalLevel >= AuthorityOf(byDiscount)
         /\ routing.routing.approvalLevel >= AuthorityOf(bySize)

(***************************************************************************)
(* Claims about the Compliance Checker                                     *)
(***************************************************************************)

\* The scores that the checks of a compliance result reported.
CheckScores(results) ==
  {results.complianceChecks[i].score : i \in 1..Len(results.complianceChecks)}

\* C4: the overall score of a compliance result is the least of 100 and of
\* the scores that the individual checks reported, whatever the position of
\* the worst check in the order of the checks.
C4_ScoreIsMinimum ==
  compliance # NoResult =>
    LET scores == CheckScores(compliance.compliance) \cup {100}
    IN  /\ compliance.compliance.score \in scores
        /\ \A s \in scores : compliance.compliance.score <= s

\* A result whose worst check is neither the last one nor the only one below
\* 100.
C4_Witness ==
  /\ compliance # NoResult
  /\ LET checks == compliance.compliance.complianceChecks
     IN  /\ Len(checks) = Len(complianceChecks)
         /\ checks[Len(checks)].score > compliance.compliance.score
         /\ Cardinality(CheckScores(compliance.compliance)) >= 3
         /\ compliance.compliance.score < 100

\* C5: overallCompliance is 'non_compliant' when the aggregated violations
\* hold one of severity 'high', otherwise 'conditional' when there is a
\* violation or a warning, otherwise 'compliant'.
C5_OverallCompliance ==
  compliance # NoResult =>
    LET results == compliance.compliance
        anyHigh == \E i \in 1..Len(results.violations) :
                     results.violations[i].severity = "high"
    IN  results.overallCompliance =
          (IF anyHigh THEN "non_compliant"
           ELSE IF results.violations # <<>> \/ results.warnings # <<>>
             THEN "conditional"
           ELSE "compliant")

\* A result that is 'conditional' on its warnings alone.
C5_Witness ==
  /\ compliance # NoResult
  /\ compliance.compliance.violations = <<>>
  /\ compliance.compliance.warnings # <<>>
  /\ compliance.compliance.overallCompliance = "conditional"

\* The violation severity of a result: 0 for none, 1 for a warning (or a
\* violation that is not high), 2 for a high violation.
Severity(results) ==
  IF \E i \in 1..Len(results.violations) :
       results.violations[i].severity = "high" THEN 2
  ELSE IF results.violations # <<>> \/ results.warnings # <<>> THEN 1
  ELSE 0

\* The checker's answer for the checked draft with its discount changed to d.
WithDiscount(d) ==
  complianceTable[[caseData EXCEPT !.discountRequested = d]].compliance

\* C6: for the checked draft and every draft that differs from it only by a
\* larger discountRequested, the larger discount has a score that is not
\* higher and a violation severity that is not lower, for the checker as a
\* whole and for its discount check.
C6_DiscountMonotone ==
  compliance # NoResult =>
    \A d \in Discounts :
      d > caseData.discountRequested =>
        /\ WithDiscount(d).score <= compliance.compliance.score
        /\ Severity(WithDiscount(d)) >= Severity(compliance.compliance)
        /\ WithDiscount(d).complianceChecks[1].score
             <= compliance.compliance.complianceChecks[1].score
        /\ Severity(WithDiscount(d).complianceChecks[1])
             >= Severity(compliance.compliance.complianceChecks[1])

\* A checked draft whose discount check warns, and a larger discount for
\* which it reports a high violation with a lower score.
C6_Witness ==
  /\ compliance # NoResult
  /\ Severity(compliance.compliance.complianceChecks[1]) = 1
  /\ \E d \in Discounts :
       /\ d > caseData.discountRequested
       /\ Severity(WithDiscount(d).complianceChecks[1]) = 2
       /\ WithDiscount(d).score < compliance.compliance.score

(***************************************************************************)
(* Claims about the checker and the router together                        *)
(***************************************************************************)

\* C7: a pricing draft (the category the discount check applies to) with
\* discountRequested 35, dealValue 600000, a competitorInfo that is not empty
\* and priority 'critical' is checked as 'non_compliant' with the violation
\* that the discount exceeds the limit, and is routed with urgency 'critical'
\* and a secondaryApprover.
C7_CriticalDiscountScenario ==
  ( /\ compliance # NoResult
    /\ routing # NoResult
    /\ caseData.category = "pricing"
    /\ caseData.discountRequested = Pct(35)
    /\ caseData.dealValue = 600000
    /\ caseData.competitorInfo # <<>>
    /\ caseData.priority = "critical" )
  => /\ compliance.compliance.overallCompliance = "non_compliant"
     /\ \E i \in 1..Len(compliance.compliance.violations) :
          compliance.compliance.violations[i].type = "discount_limit_exceeded"
     /\ routing.routing.urgency = "critical"
     /\ routing.routing.secondaryApprover # Null

(***************************************************************************)
(* Claims about the Scenario Matcher and the pipeline                      *)
(***************************************************************************)

\* "Can you help me with my HEP pricing in Solution Builder?"
HepUtterance ==
  utteranceList[1]

\* The case of the hep-pricing scenario, routed: category "Pricing", no deal
\* value, no discount.
HepCaseRouted ==
  /\ routing # NoResult
  /\ caseData.category = "Pricing"
  /\ caseData.dealValue = 0
  /\ caseData.discountRequested = 0

\* The matcher, asked about the HEP utterance, returns the hep-pricing
\* scenario, which requires a case.
HepScenarioMatched ==
  (matched # NoResult /\ messageText = HepUtterance)
  => /\ matched.scenario # 0
     /\ customerScenarios[matched.scenario].id = "hep-pricing"
     /\ customerScenarios[matched.scenario].requiresCase

\* C8 as the specification states it: for the HEP utterance the matcher
\* returns hep-pricing with requiresCase, and the router, given category
\* "Pricing" with no deal value and no discount, returns autoApprovable =
\* false and the primaryApprover of the default branch of the category
\* routing.
C8_HepNotAutoApprovable ==
  /\ HepScenarioMatched
  /\ HepCaseRouted
       => /\ ~routing.analysis.autoApprovable
          /\ routing.routing.primaryApprover
               = CategoryRouting(caseData, 0, 0).approver

\* C8, amended: for the HEP utterance the matcher returns hep-pricing with
\* requiresCase, and the router, given category "Pricing" with no deal value
\* and no discount, returns autoApprovable = true (the complexity score is at
\* most 2 for every priority) with primaryApprover 'Auto-approved',
\* approvalLevel 1 and expectedTimeline 'Immediate'.
C8_HepAutoApproved ==
  /\ HepScenarioMatched
  /\ HepCaseRouted
       => /\ routing.analysis.autoApprovable
          /\ routing.analysis.complexityScore <= Pct(2)
          /\ routing.routing.primaryApprover = AutoApproved
          /\ routing.routing.approvalLevel = 1
          /\ routing.routing.expectedTimeline = "Immediate"

\* The HEP utterance answered with the hep-pricing scenario and its case
\* routed at priority 'critical'.
C8_Witness ==
  /\ messageText = HepUtterance
  /\ Answered
  /\ response.scenarioId = "hep-pricing"
  /\ response.requiresCase
  /\ HepCaseRouted
  /\ caseData.priority = "critical"

\* The number of keywords of the scenario at catalog position n that occur
\* in the text.
KeywordCount(n, text) ==
  Cardinality({k \in 1..Len(customerScenarios[n].keywords) :
                 Includes(text, customerScenarios[n].keywords[k])})

\* C9: findMatchingScenario returns none when no keyword of any scenario
\* occurs in the lower-cased utterance; otherwise it returns a scenario with
\* the highest count of keywords that occur in it, and among the scenarios
\* with that count the one that comes first in the catalog.
C9_BestScenarioEarliestOnTie ==
  matched # NoResult =>
    LET input == ToLowerCase(messageText)
        qualifying == {n \in 1..Len(customerScenarios) :
                         KeywordCount(n, input) >= 1}
    IN  IF qualifying = {}
          THEN matched.scenario = 0
          ELSE /\ matched.scenario \in qualifying
               /\ \A n \in qualifying :
                    /\ KeywordCount(n, input)
                         <= KeywordCount(matched.scenario, input)
                    /\ KeywordCount(n, input)
                         = KeywordCount(matched.scenario, input)
                       => matched.scenario <= n

\* Two scenarios share the highest count and the earlier one is returned.
C9_Witness ==
  /\ matched # NoResult
  /\ matched.scenario # 0
  /\ \E n \in 1..Len(customerScenarios) :
       /\ n > matched.scenario
       /\ KeywordCount(n, ToLowerCase(messageText))
            = KeywordCount(matched.scenario, ToLowerCase(messageText))
       /\ KeywordCount(n, ToLowerCase(messageText)) >= 2

\* The lower-cased text contains "help me access dynamics".
AsksForDynamicsAccess(text) ==
  Includes(ToLowerCase(text), utteranceList[2])

\* The response types of the two handlers that do not belong to the generic
\* intent-based responder.
SpecificResponseTypes ==
  {"scenario_match", "dynamics_access_help"}

\* C10 as the specification states it: whenever the processed utterance
\* matches a catalog scenario, the response is that scenario's, of type
\* 'scenario_match'; a response of the generic responder is given only
\* when no scenario matches.
C10_ScenarioFirst ==
  Answered =>
    LET scenario == findMatchingScenario(messageText)
    IN  /\ scenario # 0
             => /\ response.responseType = "scenario_match"
                /\ response.scenarioId = customerScenarios[scenario].id
        /\ response.responseType \notin SpecificResponseTypes
             => scenario = 0

\* C10, amended: an utterance whose lower-cased text contains "help me
\* access dynamics" is answered with responseType 'dynamics_access_help'
\* whether or not it matches a scenario; every other utterance that matches
\* a catalog scenario is answered with that scenario's response, of type
\* 'scenario_match'; the generic responder answers only when no scenario
\* matches.
C10_ScenarioFirstAfterDynamicsHelp ==
  Answered =>
    LET scenario == findMatchingScenario(messageText)
    IN  /\ AsksForDynamicsAccess(messageText)
             => response.responseType = "dynamics_access_help"
        /\ (~AsksForDynamicsAccess(messageText) /\ scenario # 0)
             => /\ response.responseType = "scenario_match"
                /\ response.scenarioId = customerScenarios[scenario].id
        /\ response.responseType \notin SpecificResponseTypes
             => scenario = 0

\* An utterance that matches a scenario and for which the intent detection
\* finds an intent of its own, answered with the scenario's response.
C10_Witness ==
  /\ Answered
  /\ findMatchingScenario(messageText) # 0
  /\ detectIntent(ToLowerCase(messageText)) # "general_question"
  /\ response.responseType = "scenario_match"

(***************************************************************************)
(* Message Processor (MessageProcessor): intent classification             *)
(***************************************************************************)

\* The pieces of the intent patterns: a group of alternative literals (an
\* optional group has the empty literal among them), ".*", "." and "\d+".
Lit(alts) ==
  [kind |-> "lit", alts |-> alts]

AnyRun ==
  [kind |-> "any", alts |-> {}]

AnyChar ==
  [kind |-> "dot", alts |-> {}]

Digits ==
  [kind |-> "digits", alts |-> {}]

\* The positions right after a match of one piece that starts at position i
\* of the text; letters are compared without regard to case (flag i).
PieceEnds(piece, text, i) ==
  CASE piece.kind = "lit" ->
         {i + Len(a) : a \in
            {b \in piece.alts :
               /\ i + Len(b) - 1 <= Len(text)
               /\ ToLowerCase(SubSeq(text, i, i + Len(b) - 1))
                    = ToLowerCase(b)}}
    [] piece.kind = "any" -> i..(Len(text) + 1)
    [] piece.kind = "dot" -> IF i <= Len(text) THEN {i + 1} ELSE {}
    [] piece.kind = "digits" ->
         {j \in (i + 1)..(Len(text) + 1) :
            \A k \in i..(j - 1) : IsDigit(text[k])}

\* The positions right after a match of the first n pieces of a pattern that
\* starts at one of the positions in starts.
RECURSIVE PatternEnds(_, _, _, _)
PatternEnds(pattern, n, text, starts) ==
  IF n = 0 THEN starts
  ELSE UNION {PieceEnds(pattern[n], text, i) :
                i \in PatternEnds(pattern, n - 1, text, starts)}

\* pattern.test(text): the pattern matches somewhere in the text.
Test(pattern, text) ==
  PatternEnds(pattern, Len(pattern), text, 1..(Len(text) + 1)) # {}

\* buildIntentPatterns(): the buckets in the order of the object's keys.
intentPatterns ==
  << [intentType |-> "selfService",
      patterns |-> <<
       \* /what (is|are) the (discount|minimum|limit|requirement)/i
       << Lit({<<"w","h","a","t"," ">>}),
          Lit({<<"i","s">>, <<"a","r","e">>}),
          Lit({<<" ","t","h","e"," ">>}),
          Lit({<<"d","i","s","c","o","u","n","t">>, <<"m","i","n","i","m","u","m">>, <<"l","i","m","i","t">>, <<"r","e","q","u","i","r","e","m","e","n","t">>}) >>,
       \* /can I (give|offer|provide) (\d+)%/i
       << Lit({<<"c","a","n"," ","I"," ">>}),
          Lit({<<"g","i","v","e">>, <<"o","f","f","e","r">>, <<"p","r","o","v","i","d","e">>}),
          Lit({<<" ">>}),
          Digits,
          Lit({<<"%">>}) >>,
       \* /is (\d+)% (allowed|approved|ok)/i
       << Lit({<<"i","s"," ">>}),
          Digits,
          Lit({<<"%"," ">>}),
          Lit({<<"a","l","l","o","w","e","d">>, <<"a","p","p","r","o","v","e","d">>, <<"o","k">>}) >>,
       \* /minimum (seats|users|commitment) for/i
       << Lit({<<"m","i","n","i","m","u","m"," ">>}),
          Lit({<<"s","e","a","t","s">>, <<"u","s","e","r","s">>, <<"c","o","m","m","i","t","m","e","n","t">>}),
          Lit({<<" ","f","o","r">>}) >>,
       \* /standard (pricing|terms|policy) for/i
       << Lit({<<"s","t","a","n","d","a","r","d"," ">>}),
          Lit({<<"p","r","i","c","i","n","g">>, <<"t","e","r","m","s">>, <<"p","o","l","i","c","y">>}),
          Lit({<<" ","f","o","r">>}) >>,
       \* /auto.approved (limit|threshold)/i
       << Lit({<<"a","u","t","o">>}),
          AnyChar,
          Lit({<<"a","p","p","r","o","v","e","d"," ">>}),
          Lit({<<"l","i","m","i","t">>, <<"t","h","r","e","s","h","o","l","d">>}) >>,
       \* /who approves (\d+)%/i
       << Lit({<<"w","h","o"," ","a","p","p","r","o","v","e","s"," ">>}),
          Digits,
          Lit({<<"%">>}) >>,
       \* /approval (process|workflow) for/i
       << Lit({<<"a","p","p","r","o","v","a","l"," ">>}),
          Lit({<<"p","r","o","c","e","s","s">>, <<"w","o","r","k","f","l","o","w">>}),
          Lit({<<" ","f","o","r">>}) >> >>],
     [intentType |-> "caseCreation",
      patterns |-> <<
       \* /need (approval|exception|case) for/i
       << Lit({<<"n","e","e","d"," ">>}),
          Lit({<<"a","p","p","r","o","v","a","l">>, <<"e","x","c","e","p","t","i","o","n">>, <<"c","a","s","e">>}),
          Lit({<<" ","f","o","r">>}) >>,
       \* /create (a )?case/i
       << Lit({<<"c","r","e","a","t","e"," ">>}),
          Lit({<<"a"," ">>, <<>>}),
          Lit({<<"c","a","s","e">>}) >>,
       \* /submit (request|case)/i
       << Lit({<<"s","u","b","m","i","t"," ">>}),
          Lit({<<"r","e","q","u","e","s","t">>, <<"c","a","s","e">>}) >>,
       \* /exception to policy/i
       << Lit({<<"e","x","c","e","p","t","i","o","n"," ","t","o"," ","p","o","l","i","c","y">>}) >>,
       \* /special (approval|request|terms)/i
       << Lit({<<"s","p","e","c","i","a","l"," ">>}),
          Lit({<<"a","p","p","r","o","v","a","l">>, <<"r","e","q","u","e","s","t">>, <<"t","e","r","m","s">>}) >>,
       \* /outside (of )?policy/i
       << Lit({<<"o","u","t","s","i","d","e"," ">>}),
          Lit({<<"o","f"," ">>, <<>>}),
          Lit({<<"p","o","l","i","c","y">>}) >>,
       \* /custom (terms|agreement|pricing)/i
       << Lit({<<"c","u","s","t","o","m"," ">>}),
          Lit({<<"t","e","r","m","s">>, <<"a","g","r","e","e","m","e","n","t">>, <<"p","r","i","c","i","n","g">>}) >>,
       \* /emergency (approval|discount)/i
       << Lit({<<"e","m","e","r","g","e","n","c","y"," ">>}),
          Lit({<<"a","p","p","r","o","v","a","l">>, <<"d","i","s","c","o","u","n","t">>}) >>,
       \* /competitive (threat|situation|response)/i
       << Lit({<<"c","o","m","p","e","t","i","t","i","v","e"," ">>}),
          Lit({<<"t","h","r","e","a","t">>, <<"s","i","t","u","a","t","i","o","n">>, <<"r","e","s","p","o","n","s","e">>}) >>,
       \* /urgent.*(approval|case|request)/i
       << Lit({<<"u","r","g","e","n","t">>}),
          AnyRun,
          Lit({<<"a","p","p","r","o","v","a","l">>, <<"c","a","s","e">>, <<"r","e","q","u","e","s","t">>}) >> >>],
     [intentType |-> "policyLookup",
      patterns |-> <<
       \* /what.*(policy|rule|roe) (says|states)/i
       << Lit({<<"w","h","a","t">>}),
          AnyRun,
          Lit({<<"p","o","l","i","c","y">>, <<"r","u","l","e">>, <<"r","o","e">>}),
          Lit({<<" ">>}),
          Lit({<<"s","a","y","s">>, <<"s","t","a","t","e","s">>}) >>,
       \* /lookup.*policy/i
       << Lit({<<"l","o","o","k","u","p">>}),
          AnyRun,
          Lit({<<"p","o","l","i","c","y">>}) >>,
       \* /check.*rules/i
       << Lit({<<"c","h","e","c","k">>}),
          AnyRun,
          Lit({<<"r","u","l","e","s">>}) >>,
       \* /policy for.*segment/i
       << Lit({<<"p","o","l","i","c","y"," ","f","o","r">>}),
          AnyRun,
          Lit({<<"s","e","g","m","e","n","t">>}) >>,
       \* /rules.*for.*(enterprise|smb|midmarket)/i
       << Lit({<<"r","u","l","e","s">>}),
          AnyRun,
          Lit({<<"f","o","r">>}),
          AnyRun,
          Lit({<<"e","n","t","e","r","p","r","i","s","e">>, <<"s","m","b">>, <<"m","i","d","m","a","r","k","e","t">>}) >>,
       \* /discount.*limits.*for/i
       << Lit({<<"d","i","s","c","o","u","n","t">>}),
          AnyRun,
          Lit({<<"l","i","m","i","t","s">>}),
          AnyRun,
          Lit({<<"f","o","r">>}) >>,
       \* /approval.*thresholds/i
       << Lit({<<"a","p","p","r","o","v","a","l">>}),
          AnyRun,
          Lit({<<"t","h","r","e","s","h","o","l","d","s">>}) >> >>],
     [intentType |-> "guidance",
      patterns |-> <<
       \* /how (do I|to|should I)/i
       << Lit({<<"h","o","w"," ">>}),
          Lit({<<"d","o"," ","I">>, <<"t","o">>, <<"s","h","o","u","l","d"," ","I">>}) >>,
       \* /what should I (do|say)/i
       << Lit({<<"w","h","a","t"," ","s","h","o","u","l","d"," ","I"," ">>}),
          Lit({<<"d","o">>, <<"s","a","y">>}) >>,
       \* /best practice(s)? for/i
       << Lit({<<"b","e","s","t"," ","p","r","a","c","t","i","c","e">>}),
          Lit({<<"s">>, <<>>}),
          Lit({<<" ","f","o","r">>}) >>,
       \* /recommend(ation)?.*for/i
       << Lit({<<"r","e","c","o","m","m","e","n","d">>}),
          Lit({<<"a","t","i","o","n">>, <<>>}),
          AnyRun,
          Lit({<<"f","o","r">>}) >>,
       \* /guidance (on|for)/i
       << Lit({<<"g","u","i","d","a","n","c","e"," ">>}),
          Lit({<<"o","n">>, <<"f","o","r">>}) >>,
       \* /help (me )?with/i
       << Lit({<<"h","e","l","p"," ">>}),
          Lit({<<"m","e"," ">>, <<>>}),
          Lit({<<"w","i","t","h">>}) >>,
       \* /what.*(approach|strategy)/i
       << Lit({<<"w","h","a","t">>}),
          AnyRun,
          Lit({<<"a","p","p","r","o","a","c","h">>, <<"s","t","r","a","t","e","g","y">>}) >>,
       \* /how.*(structure|format|create)/i
       << Lit({<<"h","o","w">>}),
          AnyRun,
          Lit({<<"s","t","r","u","c","t","u","r","e">>, <<"f","o","r","m","a","t">>, <<"c","r","e","a","t","e">>}) >> >>],
     [intentType |-> "precedentSearch",
      patterns |-> <<
       \* /similar (case|situation|deal)/i
       << Lit({<<"s","i","m","i","l","a","r"," ">>}),
          Lit({<<"c","a","s","e">>, <<"s","i","t","u","a","t","i","o","n">>, <<"d","e","a","l">>}) >>,
       \* /has this happened before/i
       << Lit({<<"h","a","s"," ","t","h","i","s"," ","h","a","p","p","e","n","e","d"," ","b","e","f","o","r","e">>}) >>,
       \* /precedent for/i
       << Lit({<<"p","r","e","c","e","d","e","n","t"," ","f","o","r">>}) >>,
       \* /example(s)? of/i
       << Lit({<<"e","x","a","m","p","l","e">>}),
          Lit({<<"s">>, <<>>}),
          Lit({<<" ","o","f">>}) >>,
       \* /other (cases|deals) like/i
       << Lit({<<"o","t","h","e","r"," ">>}),
          Lit({<<"c","a","s","e","s">>, <<"d","e","a","l","s">>}),
          Lit({<<" ","l","i","k","e">>}) >>,
       \* /history of.*approvals/i
       << Lit({<<"h","i","s","t","o","r","y"," ","o","f">>}),
          AnyRun,
          Lit({<<"a","p","p","r","o","v","a","l","s">>}) >>,
       \* /past (cases|examples)/i
       << Lit({<<"p","a","s","t"," ">>}),
          Lit({<<"c","a","s","e","s">>, <<"e","x","a","m","p","l","e","s">>}) >>,
       \* /comparable (situation|deal)/i
       << Lit({<<"c","o","m","p","a","r","a","b","l","e"," ">>}),
          Lit({<<"s","i","t","u","a","t","i","o","n">>, <<"d","e","a","l">>}) >> >>],
     [intentType |-> "escalation",
      patterns |-> <<
       \* /urgent.*customer/i
       << Lit({<<"u","r","g","e","n","t">>}),
          AnyRun,
          Lit({<<"c","u","s","t","o","m","e","r">>}) >>,
       \* /escalat(e|ion)/i
       << Lit({<<"e","s","c","a","l","a","t">>}),
          Lit({<<"e">>, <<"i","o","n">>}) >>,
       \* /customer (complaint|angry|upset)/i
       << Lit({<<"c","u","s","t","o","m","e","r"," ">>}),
          Lit({<<"c","o","m","p","l","a","i","n","t">>, <<"a","n","g","r","y">>, <<"u","p","s","e","t">>}) >>,
       \* /immediate.*help/i
       << Lit({<<"i","m","m","e","d","i","a","t","e">>}),
          AnyRun,
          Lit({<<"h","e","l","p">>}) >>,
       \* /crisis/i
       << Lit({<<"c","r","i","s","i","s">>}) >>,
       \* /emergency/i
       << Lit({<<"e","m","e","r","g","e","n","c","y">>}) >>,
       \* /critical.*situation/i
       << Lit({<<"c","r","i","t","i","c","a","l">>}),
          AnyRun,
          Lit({<<"s","i","t","u","a","t","i","o","n">>}) >>,
       \* /legal.*review/i
       << Lit({<<"l","e","g","a","l">>}),
          AnyRun,
          Lit({<<"r","e","v","i","e","w">>}) >>,
       \* /compliance.*issue/i
       << Lit({<<"c","o","m","p","l","i","a","n","c","e">>}),
          AnyRun,
          Lit({<<"i","s","s","u","e">>}) >> >>] >>

\* MessageProcessor.mapIntentToResponseType
mapIntentToResponseType(intentType) ==
  CASE intentType = "selfService" -> "self_service"
    [] intentType = "caseCreation" -> "case_creation"
    [] intentType = "policyLookup" -> "policy_lookup"
    [] intentType = "guidance" -> "guidance_request"
    [] intentType = "precedentSearch" -> "precedent_search"
    [] intentType = "escalation" -> "escalation_needed"
    [] OTHER -> "policy_lookup"

\* The literals of the keyword fallback of determineIntent, in the order of
\* its branches.
fallbackKeywords ==
  << [intent |-> "policy_lookup",
      keywords |-> {<<"p","o","l","i","c","y">>, <<"r","u","l","e">>, <<"l","i","m","i","t">>}],
     [intent |-> "case_creation",
      keywords |-> {<<"c","a","s","e">>, <<"a","p","p","r","o","v","a","l">>, <<"e","x","c","e","p","t","i","o","n">>}],
     [intent |-> "precedent_search",
      keywords |-> {<<"e","x","a","m","p","l","e">>, <<"s","i","m","i","l","a","r">>, <<"p","r","e","c","e","d","e","n","t">>}],
     [intent |-> "guidance_request",
      keywords |-> {<<"h","o","w">>, <<"g","u","i","d","a","n","c","e">>, <<"h","e","l","p">>}] >>

\* The buckets that have a pattern matching the text.
MatchingBuckets(text) ==
  {b \in 1..Len(intentPatterns) :
     \E p \in 1..Len(intentPatterns[b].patterns) :
       Test(intentPatterns[b].patterns[p], text)}

\* The branches of the keyword fallback that have a literal in the text.
FallbackBranches(text) ==
  {f \in 1..Len(fallbackKeywords) :
     \E k \in fallbackKeywords[f].keywords : Includes(text, k)}

\* The intent for a text given the matching buckets and fallback branches:
\* the first bucket, else the first fallback branch, else policy_lookup.
IntentOf(buckets, branches) ==
  IF buckets # {}
    THEN mapIntentToResponseType(
           intentPatterns[CHOOSE b \in buckets :
                            \A c \in buckets : b <= c].intentType)
  ELSE IF branches # {}
    THEN fallbackKeywords[CHOOSE f \in branches :
                            \A g \in branches : f <= g].intent
  ELSE "policy_lookup"

\* The last matching bucket is returned instead of the first.
determineIntent_LastBucket(message) ==
  LET buckets == MatchingBuckets(ToLowerCase(message))
  IN  IF buckets = {}
        THEN IntentOf({}, FallbackBranches(ToLowerCase(message)))
        ELSE IntentOf({CHOOSE b \in buckets : \A c \in buckets : b >= c}, {})

\* The message is classified as typed, without lower-casing it.
determineIntent_AsTyped(message) ==
  IntentOf(MatchingBuckets(message), FallbackBranches(message))

\* MessageProcessor.determineIntent
determineIntent(message) ==
  IntentOf(MatchingBuckets(ToLowerCase(message)),
           FallbackBranches(ToLowerCase(message)))

\* "that", "it", "this": the references analyzeConversationContext looks for.
referenceWords ==
  {<<"t","h","a","t">>, <<"i","t">>, <<"t","h","i","s">>}

\* MessageProcessor.analyzeConversationContext; the recent topics are not
\* kept.
analyzeConversationContext(message, conversationContext) ==
  IF conversationContext = <<>>
    THEN [isFollowUp |-> FALSE, contextAvailable |-> FALSE,
          conversationLength |-> 0]
    ELSE [isFollowUp |->
            \E w \in referenceWords : Includes(ToLowerCase(message), w),
          contextAvailable |-> TRUE,
          conversationLength |-> Len(conversationContext)]

\* The object that analyzeMessage returns.
MessageAnalysis(intent, contextualInfo) ==
  [intent |-> intent, contextualInfo |-> contextualInfo]

\* MessageProcessor.analyzeMessage: the intent and the contextual
\* information; the entities, complexity and confidence are not kept.
analyzeMessage(message, conversationContext) ==
  MessageAnalysis(determineIntent(message),
                  analyzeConversationContext(message, conversationContext))

\* The messages handed to the Message Processor in the model.
messageList ==
  << \* "What is the discount limit?"
     <<"W","h","a","t"," ","i","s"," ","t","h","e"," ","d","i","s","c","o","u","n","t"," ","l","i","m","i","t","?">>,
     \* "how do I create a case"
     <<"h","o","w"," ","d","o"," ","I"," ","c","r","e","a","t","e"," ","a"," ","c","a","s","e">>,
     \* "HOW DO I CREATE A CASE"
     <<"H","O","W"," ","D","O"," ","I"," ","C","R","E","A","T","E"," ","A"," ","C","A","S","E">>,
     \* "can I give 15% off"
     <<"c","a","n"," ","I"," ","g","i","v","e"," ","1","5","%"," ","o","f","f">>,
     \* "I need an APPROVAL"
     <<"I"," ","n","e","e","d"," ","a","n"," ","A","P","P","R","O","V","A","L">>,
     \* "i need an approval"
     <<"i"," ","n","e","e","d"," ","a","n"," ","a","p","p","r","o","v","a","l">>,
     \* "any similar deal"
     <<"a","n","y"," ","s","i","m","i","l","a","r"," ","d","e","a","l">>,
     \* "customer escalation"
     <<"c","u","s","t","o","m","e","r"," ","e","s","c","a","l","a","t","i","o","n">>,
     \* "show me an example"
     <<"s","h","o","w"," ","m","e"," ","a","n"," ","e","x","a","m","p","l","e">>,
     \* "hello there"
     <<"h","e","l","l","o"," ","t","h","e","r","e">>,
     \* "lookup the policy"
     <<"l","o","o","k","u","p"," ","t","h","e"," ","p","o","l","i","c","y">>,
     \* "Help please"
     <<"H","e","l","p"," ","p","l","e","a","s","e">>,
     \* "auto-approved limit"
     <<"a","u","t","o","-","a","p","p","r","o","v","e","d"," ","l","i","m","i","t">>,
     \* "urgent: customer needs approval"
     <<"u","r","g","e","n","t",":"," ","c","u","s","t","o","m","e","r"," ","n","e","e","d","s"," ","a","p","p","r","o","v","a","l">> >>

Messages ==
  {messageList[i] : i \in 1..Len(messageList)}

\* The longest conversationContext handed to analyzeMessage in the model.
MaxContext ==
  2

\* The messages that the conversation contexts of the model are made of.
ContextMessages ==
  {messageList[2], messageList[5], messageList[10]}

RECURSIVE ContextsUpTo(_)
ContextsUpTo(n) ==
  IF n = 0 THEN {<<>>}
  ELSE ContextsUpTo(n - 1)
       \cup {Append(c, m) : c \in ContextsUpTo(n - 1), m \in ContextMessages}

\* The analyses of the messages of the model, computed once.
intentTable ==
  [m \in Messages |-> determineIntent(m)]

analysisTable ==
  [m \in Messages |->
     [c \in ContextsUpTo(MaxContext) |->
        MessageAnalysis(intentTable[m], analyzeConversationContext(m, c))]]

(***************************************************************************)
(* The Message Processor applied to messages                               *)
(***************************************************************************)

\* The checker, the router and the pipeline before any request.
CoreIdle ==
  /\ caseData = CaseDraft("pricing", "medium", 0, 0, <<>>, <<>>)
  /\ compliance = NoResult
  /\ routing = NoResult
  /\ messageText = <<>>
  /\ matched = NoResult
  /\ response = NoResult
  /\ conversationHistory = <<>>

InitIntent ==
  /\ CoreIdle
  /\ AuxIdle

\* messageProcessor.analyzeMessage(m, c)
AnalyzeMessage(m, c) ==
  /\ messageText' = m
  /\ conversation' = c
  /\ messageAnalysis' = analysisTable[m][c]
  /\ UNCHANGED <<uiVars, caseVars, matched, response, conversationHistory, storeVars,
                 sessionVars>>

NextIntent ==
  \E m \in Messages, c \in ContextsUpTo(MaxContext) : AnalyzeMessage(m, c)

IntentSpec ==
  InitIntent /\ [][NextIntent]_vars

(***************************************************************************)
(* Claims about the Message Processor                                      *)
(***************************************************************************)

\* The six intents, in the order in which their buckets are tried.
BucketIntents ==
  << "self_service", "case_creation", "policy_lookup", "guidance_request",
     "precedent_search", "escalation_needed" >>

\* C11: determineIntent returns exactly one of the six intents: the intent
\* of the first bucket, in the order self-service, case-creation,
\* policy-lookup, guidance, precedent-search, escalation, that has a matching
\* pattern; when no bucket matches, an intent of the keyword fallback whose
\* keyword occurs in the message, and policy_lookup when nothing hits.
C11_FirstMatchingBucket ==
  messageAnalysis # NoResult =>
    LET text == ToLowerCase(messageText)
        buckets == MatchingBuckets(text)
        branches == FallbackBranches(text)
        intent == messageAnalysis.intent
    IN  /\ \E b \in 1..Len(BucketIntents) : intent = BucketIntents[b]
        /\ \A b \in buckets :
             (\A c \in buckets : b <= c) => intent = BucketIntents[b]
        /\ (buckets = {} /\ branches # {}) =>
             \E f \in branches : intent = fallbackKeywords[f].intent
        /\ (buckets = {} /\ branches = {}) => intent = "policy_lookup"

\* A message that matches the case-creation and the guidance bucket was
\* classified as case creation.
C11_Witness ==
  /\ messageAnalysis # NoResult
  /\ {2, 4} \subseteq MatchingBuckets(ToLowerCase(messageText))
  /\ messageAnalysis.intent = "case_creation"

\* C12: the intent is a function of the message text alone, letter case
\* disregarded: a message analysed right after another one that differs from
\* it in letter case at most gets the same intent, whatever conversation
\* context each of the two analyses was given.
C12_IntentOfTextAlone ==
  [][(/\ messageAnalysis # NoResult
      /\ ToLowerCase(messageText') = ToLowerCase(messageText))
       => messageAnalysis'.intent = messageAnalysis.intent]_vars

\* A message with capital letters that only the keyword fallback classifies
\* was analysed with a conversation context.
C12_Witness ==
  /\ messageAnalysis # NoResult
  /\ conversation # <<>>
  /\ messageText = messageList[5]
  /\ messageText # ToLowerCase(messageText)
  /\ messageAnalysis.intent = "case_creation"

(***************************************************************************)
(* Policy Knowledge Store (KnowledgeBaseService): policy lookups           *)
(***************************************************************************)

\* The members that every object literal inherits from Object.prototype and
\* that a property read with such a key returns: functions, which are truthy.
InheritedKeys ==
  {"constructor", "toString"}

\* The keys under which an inherited function has a truthy member of its own
\* or an inherited one.
FunctionMemberKeys ==
  {"name"} \cup InheritedKeys

\* rulesOfEngagement.dealTypes: the minimum commitment of a deal type is a
\* table by segment or, for addon and upsell, a sentence.
dealTypes ==
  [newBusiness |->
     [table |-> TRUE,
      minimumCommitment |->
        [enterprise      |-> [seats |-> 100,  value |-> 50000],
         midmarket       |-> [seats |-> 25,   value |-> 15000],
         smb             |-> [seats |-> 5,    value |-> 5000],
         largeEnterprise |-> [seats |-> 500,  value |-> 250000],
         globalAccounts  |-> [seats |-> 1000, value |-> 500000]]],
   renewal |->
     [table |-> TRUE,
      minimumCommitment |->
        [enterprise      |-> [seats |-> 75,  value |-> 40000],
         midmarket       |-> [seats |-> 20,  value |-> 12000],
         smb             |-> [seats |-> 3,   value |-> 3000],
         largeEnterprise |-> [seats |-> 400, value |-> 200000],
         globalAccounts  |-> [seats |-> 800, value |-> 400000]]],
   addon |->
     [table |-> FALSE,
      minimumCommitment |-> "No minimum requirement for add-on purchases"],
   upsell |->
     [table |-> FALSE,
      minimumCommitment |-> "25% increase from current contract value"]]

\* rulesOfEngagement.pilotPrograms; the extended program has no seat limit.
pilotPrograms ==
  [standard |->
     [duration |-> "30 days", maxSeats |-> 10,
      approvalRequired |-> SalesManager],
   enterprise |->
     [duration |-> "60 days", maxSeats |-> 50,
      approvalRequired |-> RegionalDirector],
   largeEnterprise |->
     [duration |-> "90 days", maxSeats |-> 100,
      approvalRequired |-> VPSales],
   extended |->
     [duration |-> "6+ months", maxSeats |-> NaN,
      approvalRequired |-> VPSalesCEO]]

\* What a property read with an inherited key returns.
InheritedFunction(key) ==
  [function |-> key]

\* getDiscountPolicy with the property reads as JavaScript makes them: the
\* entry of the table, or what the member of an inherited function spreads
\* to (no max, typical or autoApproved, and no number for effectiveMax).
ReadDiscountPolicy(dealType, segment, region) ==
  IF dealType \in InheritedKeys /\ dealType \notin DOMAIN standardDiscounts
    THEN IF segment \in FunctionMemberKeys
           THEN [max |-> NaN, typical |-> NaN, autoApproved |-> NaN,
                 regionalAdjustment |->
                   Lookup(regionalDiscounts, region, 0),
                 effectiveMax |-> NaN]
           ELSE NoPolicy
    ELSE getDiscountPolicy(dealType, segment, region)

\* a || b for numbers: 0 and NaN are falsy.
NumOr(a, b) ==
  IF a = 0 \/ a = NaN THEN b ELSE a

\* The policy object of lookupDiscountPolicy.
DiscountPolicyResult(policy, dealType, segment, region) ==
  IF policy = NoPolicy
    THEN [success |-> FALSE, message |-> "No discount policy found"]
    ELSE [success |-> TRUE,
          policy |->
            [segment |-> segment, dealType |-> dealType, region |-> region,
             maxDiscount |-> policy.max,
             typicalDiscount |-> policy.typical,
             autoApprovedLimit |-> policy.autoApproved,
             regionalAdjustment |-> NumOr(policy.regionalAdjustment, 0),
             effectiveMax |-> NumOr(policy.effectiveMax, policy.max)]]

\* KnowledgeBaseService.lookupDiscountPolicy
lookupDiscountPolicy(dealType, segment, region) ==
  DiscountPolicyResult(ReadDiscountPolicy(dealType, segment, region),
                       dealType, segment, region)

\* The requirements of an approval lookup; the highest level is left out.
lookupApprovalRequirements_DiscountAlone(discountPercent, dealSize) ==
  LET requirements == getApprovalRequirement(discountPercent, dealSize)
  IN  IF /\ requirements.discountApproval = NoEntry
         /\ requirements.sizeApproval = NoEntry
        THEN [success |-> FALSE,
              message |-> "No specific approval requirements found"]
        ELSE [success |-> TRUE,
              discountPercent |-> discountPercent,
              dealSize |-> dealSize,
              requirements |->
                [discount |-> requirements.discountApproval,
                 dealSize |-> requirements.sizeApproval,
                 highestLevel |-> <<requirements.discountApproval>>]]

\* KnowledgeBaseService.lookupApprovalRequirements
lookupApprovalRequirements(discountPercent, dealSize) ==
  LET requirements == getApprovalRequirement(discountPercent, dealSize)
  IN  IF /\ requirements.discountApproval = NoEntry
         /\ requirements.sizeApproval = NoEntry
        THEN [success |-> FALSE,
              message |-> "No specific approval requirements found"]
        ELSE [success |-> TRUE,
              discountPercent |-> discountPercent,
              dealSize |-> dealSize,
              requirements |->
                [discount |-> requirements.discountApproval,
                 dealSize |-> requirements.sizeApproval,
                 highestLevel |-> requirements.highestLevel]]

\* KnowledgeBaseService.lookupMinimumRequirements.  A deal type read through
\* an inherited key has no minimumCommitment; a segment read through an
\* inherited key is a function with no seats and no value, and formatting
\* its value raises the TypeError that the catch block turns into a failure.
lookupMinimumRequirements(dealType, segment) ==
  IF dealType \notin DOMAIN dealTypes
    THEN [success |-> FALSE,
          message |-> "No minimum requirements found for deal type"]
  ELSE IF segment \in InheritedKeys
    THEN [success |-> FALSE,
          message |-> "Error looking up minimum requirements"]
  ELSE IF \/ ~dealTypes[dealType].table
          \/ segment \notin DOMAIN dealTypes[dealType].minimumCommitment
    THEN [success |-> FALSE,
          message |-> "No minimum requirements found for segment"]
  ELSE [success |-> TRUE,
        dealType |-> dealType,
        segment |-> segment,
        requirements |->
          [minimumSeats |->
             dealTypes[dealType].minimumCommitment[segment].seats,
           minimumValue |->
             dealTypes[dealType].minimumCommitment[segment].value]]

\* KnowledgeBaseService.lookupPilotPolicies: the check of pilotInfo is a
\* truthiness check of the property read.
lookupPilotPolicies(pilotType) ==
  IF pilotType \in DOMAIN pilotPrograms
    THEN [success |-> TRUE, pilotType |-> pilotType,
          policy |-> pilotPrograms[pilotType]]
  ELSE IF pilotType \in InheritedKeys
    THEN [success |-> TRUE, pilotType |-> pilotType,
          policy |-> InheritedFunction(pilotType)]
  ELSE [success |-> FALSE, message |-> "No pilot policy found"]

\* The keys that the lookups of the model are made with: the keys of the
\* tables, keys that no table has, and keys that every object inherits.
DealTypeKeys ==
  {"newBusiness", "renewal", "addon", "upsell", "expansion", "constructor"}

SegmentKeys ==
  {"enterprise", "midmarket", "smb", "largeEnterprise", "globalAccounts",
   "all", "startup", "name", "constructor"}

RegionKeys ==
  {"namer", "latam", "emea", "apac", "anz"}

PilotTypeKeys ==
  {"standard", "enterprise", "largeEnterprise", "extended", "custom",
   "constructor"}

(***************************************************************************)
(* The Policy Knowledge Store answering lookups                            *)
(***************************************************************************)

InitStore ==
  /\ CoreIdle
  /\ AuxIdle

\* One lookup and its result.
LookupRecord(operation, key, result) ==
  [operation |-> operation, key |-> key, result |-> result]

\* knowledgeBaseService.lookupDiscountPolicy(dealType, segment, region)
LookupDiscountPolicy(dealType, segment, region) ==
  /\ policyLookup' =
       LookupRecord("lookupDiscountPolicy", <<dealType, segment, region>>,
                    lookupDiscountPolicy(dealType, segment, region))
  /\ UNCHANGED <<uiVars, caseVars, chatVars, procVars, sessionVars>>

\* knowledgeBaseService.lookupApprovalRequirements(discountPercent, dealSize)
LookupApprovalRequirements(discountPercent, dealSize) ==
  /\ policyLookup' =
       LookupRecord("lookupApprovalRequirements", <<discountPercent, dealSize>>,
                    lookupApprovalRequirements(discountPercent, dealSize))
  /\ UNCHANGED <<uiVars, caseVars, chatVars, procVars, sessionVars>>

\* knowledgeBaseService.lookupMinimumRequirements(dealType, segment)
LookupMinimumRequirements(dealType, segment) ==
  /\ policyLookup' =
       LookupRecord("lookupMinimumRequirements", <<dealType, segment>>,
                    lookupMinimumRequirements(dealType, segment))
  /\ UNCHANGED <<uiVars, caseVars, chatVars, procVars, sessionVars>>

\* knowledgeBaseService.lookupPilotPolicies(pilotType)
LookupPilotPolicies(pilotType) ==
  /\ policyLookup' =
       LookupRecord("lookupPilotPolicies", <<pilotType>>,
                    lookupPilotPolicies(pilotType))
  /\ UNCHANGED <<uiVars, caseVars, chatVars, procVars, sessionVars>>

NextStore ==
  \/ \E dealType \in DealTypeKeys, segment \in SegmentKeys,
        region \in RegionKeys :
       LookupDiscountPolicy(dealType, segment, region)
  \/ \E discountPercent \in Discounts \cup {NaN},
        dealSize \in DealValues \cup {NaN} :
       LookupApprovalRequirements(discountPercent, dealSize)
  \/ \E dealType \in DealTypeKeys, segment \in SegmentKeys :
       LookupMinimumRequirements(dealType, segment)
  \/ \E pilotType \in PilotTypeKeys : LookupPilotPolicies(pilotType)

StoreSpec ==
  InitStore /\ [][NextStore]_vars

(***************************************************************************)
(* Claims about the Policy Knowledge Store                                 *)
(***************************************************************************)

\* The lookup in policyLookup is one of the given operation.
LookedUp(operation) ==
  policyLookup # NoResult /\ policyLookup.operation = operation

\* The discount tables have an entry for the deal type and the segment.
DiscountEntryPresent(dealType, segment) ==
  /\ dealType \in DOMAIN standardDiscounts
  /\ segment \in DOMAIN standardDiscounts[dealType]

\* C13: for every deal type and segment that the discount tables have an
\* entry for, and every region, the looked-up policy has
\* autoApprovedLimit <= typicalDiscount <= maxDiscount and
\* effectiveMax = maxDiscount + regionalAdjustment.
C13_DiscountPolicyOrdered ==
  (/\ LookedUp("lookupDiscountPolicy")
   /\ DiscountEntryPresent(policyLookup.key[1], policyLookup.key[2]))
    => /\ policyLookup.result.success
       /\ LET policy == policyLookup.result.policy
          IN  /\ policy.autoApprovedLimit <= policy.typicalDiscount
              /\ policy.typicalDiscount <= policy.maxDiscount
              /\ policy.effectiveMax
                   = policy.maxDiscount + policy.regionalAdjustment

\* The approver that the brackets of the discount table name for a discount
\* (fixed-point, one decimal), Undefined when no bracket holds it.
DiscountApprover(discountPercent) ==
  IF discountPercent = NaN THEN Undefined
  ELSE IF discountPercent >= Pct(0) /\ discountPercent <= Pct(10)
    THEN AutoApproved
  ELSE IF discountPercent >= Pct(11) /\ discountPercent <= Pct(20)
    THEN SalesManager
  ELSE IF discountPercent >= Pct(21) /\ discountPercent <= Pct(30)
    THEN RegionalDirector
  ELSE IF discountPercent >= Pct(31) THEN VPSalesFinance
  ELSE Undefined

\* The approver that the brackets of the deal-size table name for a size.
SizeApprover(dealSize) ==
  IF dealSize = NaN THEN Undefined
  ELSE IF dealSize < 50000 THEN SalesManager
  ELSE IF dealSize <= 250000 THEN RegionalDirector
  ELSE IF dealSize <= 500000 THEN VPSales
  ELSE VPSalesCEO

\* The approver of a requirement, Undefined when there is none.
ApproverOfEntry(entry) ==
  IF entry = NoEntry THEN Undefined ELSE entry.approver

\* C14: an approval lookup resolves the discount bracket from the discount
\* alone and the deal-size bracket from the deal size alone and returns
\* both; the highest level is the single requirement when the two approvers
\* are the same and the pair of both when they differ.
C14_BothBracketsAndHighest ==
  (LookedUp("lookupApprovalRequirements") /\ policyLookup.result.success)
    => LET requirements == policyLookup.result.requirements
       IN  /\ ApproverOfEntry(requirements.discount)
                = DiscountApprover(policyLookup.key[1])
           /\ ApproverOfEntry(requirements.dealSize)
                = SizeApprover(policyLookup.key[2])
           /\ requirements.highestLevel =
                IF ApproverOfEntry(requirements.discount)
                     = ApproverOfEntry(requirements.dealSize)
                  THEN <<requirements.discount>>
                  ELSE <<requirements.discount, requirements.dealSize>>

\* A lookup whose two brackets name different approvers returned the pair.
C14_Witness ==
  /\ LookedUp("lookupApprovalRequirements")
  /\ policyLookup.result.success
  /\ Len(policyLookup.result.requirements.highestLevel) = 2
  /\ policyLookup.result.requirements.discount # NoEntry
  /\ policyLookup.result.requirements.dealSize # NoEntry

\* The tables have an entry under the key of the lookup in policyLookup.
EntryPresent ==
  LET key == policyLookup.key
  IN  CASE policyLookup.operation = "lookupDiscountPolicy" ->
             DiscountEntryPresent(key[1], key[2])
        [] policyLookup.operation = "lookupMinimumRequirements" ->
             /\ key[1] \in {"newBusiness", "renewal"}
             /\ key[2] \in {"enterprise", "midmarket", "smb",
                            "largeEnterprise", "globalAccounts"}
        [] policyLookup.operation = "lookupApprovalRequirements" ->
             \/ DiscountApprover(key[1]) # Undefined
             \/ SizeApprover(key[2]) # Undefined
        [] policyLookup.operation = "lookupPilotPolicies" ->
             key[1] \in {"standard", "enterprise", "largeEnterprise",
                         "extended"}

\* C15: every lookup of the Policy Knowledge Store answers with a tagged
\* result; with a key that the tables have no entry for, the result is a
\* failure that carries a message, and a success is returned only when the
\* entry exists.
C15_MissingKeyFails ==
  policyLookup # NoResult =>
    /\ policyLookup.result.success \in BOOLEAN
    /\ ~policyLookup.result.success =>
         "message" \in DOMAIN policyLookup.result
    /\ policyLookup.result.success <=> EntryPresent

(***************************************************************************)
(* The Compliance Checker applied to malformed drafts                      *)
(***************************************************************************)

InitMalformed ==
  /\ caseData \in MalformedDrafts
  /\ compliance = NoResult
  /\ routing = NoResult
  /\ messageText = <<>>
  /\ matched = NoResult
  /\ response = NoResult
  /\ conversationHistory = <<>>
  /\ AuxIdle

NextMalformed ==
  CheckCompliance

MalformedSpec ==
  InitMalformed /\ [][NextMalformed]_vars

\* The checks that raise an exception on the draft.
ThrowingChecks ==
  {i \in 1..Len(complianceChecks) : CheckThrows(complianceChecks[i], caseData)}

\* The warnings of the result that say that a check could not be completed.
SystemWarnings(result) ==
  {i \in 1..Len(result.compliance.warnings) :
     result.compliance.warnings[i].type = "system"}

\* C16: when one of the nine compliance checks raises an exception, the
\* exception becomes an "unable to complete check" warning, the remaining
\* checks still run, and checkCompliance still returns success.
C16_ThrowingCheckIsWarning ==
  (compliance # NoResult /\ ThrowingChecks # {})
    => /\ compliance.success
       /\ Cardinality(SystemWarnings(compliance)) = Cardinality(ThrowingChecks)
       /\ Len(compliance.compliance.complianceChecks)
            = Len(complianceChecks) - Cardinality(ThrowingChecks)

(***************************************************************************)
(* Claims about the failure path of the pipeline entry point               *)
(***************************************************************************)

\* processMessage has handled a message whose handling raised an exception.
MessageRaised ==
  response # NoResult /\ messageText = NotAString

maxContextLength ==
  20

\* this.contextExpiryTime, in minutes.
contextExpiryTime ==
  30

\* The pending actions, mentioned deals and recent query types kept.
maxPendingActions ==
  3

maxMentionedDeals ==
  5

maxRecentQueries ==
  5

\* The oldest entries of a list are kept instead of the newest.
KeepLast_Oldest(list, max) ==
  IF Len(list) > max THEN SubSeq(list, 1, max) ELSE list

\* if (list.length > max) list = list.slice(-max)
KeepLast(list, max) ==
  IF Len(list) > max THEN SubSeq(list, Len(list) - max + 1, Len(list))
  ELSE list

\* The entries of the model are numbered in the order in which they are
\* added to their list of their context, whose field added counts them; the
\* ids that generateMessageId and generateActionId make up are unique as well.
NoneAdded ==
  [messages |-> 0, pendingActions |-> 0, mentionedDeals |-> 0,
   recentQueries |-> 0]

\* currentDeal and currentIntent of a context that has none.
NoDeal ==
  [null |-> TRUE]

\* An object of entities is the sequence of its <<key, value>> pairs in the
\* order of its keys.  entities[key], Null when the object has no such key.
EntityOf(entities, key) ==
  IF \E i \in 1..Len(entities) : entities[i][1] = key
    THEN entities[CHOOSE i \in 1..Len(entities) : entities[i][1] = key][2]
    ELSE Null

\* entities[key] = value: a key that the object has keeps its place.
SetEntity(entities, key, value) ==
  IF \E i \in 1..Len(entities) : entities[i][1] = key
    THEN [i \in 1..Len(entities) |->
            IF entities[i][1] = key THEN <<key, value>> ELSE entities[i]]
    ELSE Append(entities, <<key, value>>)

\* The keys of the second object set on the first, in their order.
RECURSIVE MergeEntities(_, _)
MergeEntities(entities, others) ==
  IF others = <<>> THEN entities
  ELSE MergeEntities(SetEntity(entities, Head(others)[1], Head(others)[2]),
                     Tail(others))

\* ContextManager.createNewContext; the profile's styles and the preferences
\* are not kept.
createNewContext(sessionId, time) ==
  [sessionId |-> sessionId, createdAt |-> time, lastAccessed |-> time,
   messages |-> <<>>, currentIntent |-> "null", recentQueries |-> <<>>,
   pendingActions |-> <<>>, contextualEntities |-> <<>>,
   currentDeal |-> NoDeal, mentionedDeals |-> <<>>,
   added |-> NoneAdded]

\* ContextManager.getOrCreateContext: the context of the session, made when
\* the map does not hold it, with its last access set to the present.
getOrCreateContext(contexts, sessionId, time) ==
  IF contexts[sessionId] = NoContext
    THEN createNewContext(sessionId, time)
    ELSE [contexts[sessionId] EXCEPT !.lastAccessed = time]

\* ContextManager.updateDealContext: a deal with a segment, a deal type or
\* a value becomes the current deal and is added to the mentioned deals.
updateDealContext(context, analysis) ==
  IF \/ EntityOf(analysis.entities, "segment") # Null
     \/ EntityOf(analysis.entities, "dealType") # Null
     \/ EntityOf(analysis.entities, "currency") # Null
    THEN LET dealInfo ==
               [id |-> context.added.mentionedDeals + 1,
                segment |-> EntityOf(analysis.entities, "segment"),
                dealType |-> EntityOf(analysis.entities, "dealType"),
                discountPercent |-> EntityOf(analysis.entities, "percentage"),
                dealValue |-> EntityOf(analysis.entities, "currency")]
         IN  [context EXCEPT
                !.currentDeal = dealInfo,
                !.added.mentionedDeals = @ + 1,
                !.mentionedDeals =
                  KeepLast(Append(context.mentionedDeals, dealInfo),
                           maxMentionedDeals)]
    ELSE context

\* ContextManager.updateUserProfile: the query type is tracked.
updateUserProfile(context, analysis) ==
  [context EXCEPT
     !.added.recentQueries = @ + 1,
     !.recentQueries =
       KeepLast(Append(context.recentQueries,
                       [id |-> context.added.recentQueries + 1,
                        intent |-> analysis.intent]),
                maxRecentQueries)]

\* The context with the intent set and the first value of every entity of
\* the analysis among its contextual entities.
WithIntentAndEntities(context, analysis) ==
  [context EXCEPT
     !.currentIntent = analysis.intent,
     !.contextualEntities = MergeEntities(@, analysis.entities)]

\* ContextManager.updateContextState
updateContextState(context, analysis) ==
  updateUserProfile(
    IF analysis.hasDealDetails
      THEN updateDealContext(WithIntentAndEntities(context, analysis), analysis)
      ELSE WithIntentAndEntities(context, analysis),
    analysis)

\* addMessage of a user's message with no analysis, or of another role's.
NoAnalysis ==
  [null |-> TRUE]

\* The context after addMessage pushed the message on it.
WithMessage(context) ==
  [context EXCEPT
     !.added.messages = @ + 1,
     !.messages = KeepLast(Append(context.messages,
                                  [id |-> context.added.messages + 1]),
                           maxContextLength)]

\* ContextManager.addMessage: the context of the session afterwards.
addMessage(contexts, sessionId, role, analysis, time) ==
  IF role = "user" /\ analysis # NoAnalysis
    THEN updateContextState(
           WithMessage(getOrCreateContext(contexts, sessionId, time)), analysis)
    ELSE WithMessage(getOrCreateContext(contexts, sessionId, time))

\* The context after addPendingAction pushed the action on it.
WithPendingAction(context, type) ==
  [context EXCEPT
     !.added.pendingActions = @ + 1,
     !.pendingActions =
       KeepLast(Append(context.pendingActions,
                       [id |-> context.added.pendingActions + 1,
                        type |-> type, status |-> "pending"]),
                maxPendingActions)]

\* ContextManager.addPendingAction: the context of the session afterwards.
addPendingAction(contexts, sessionId, type, time) ==
  WithPendingAction(getOrCreateContext(contexts, sessionId, time), type)

\* The session's last access lies one minute less than the window back.
IsExpired_AtWindow(context, time) ==
  time - context.lastAccessed >= contextExpiryTime

\* The test of cleanupExpiredContexts.
IsExpired(context, time) ==
  time - context.lastAccessed > contextExpiryTime

\* The expiredSessions of cleanupExpiredContexts.
ExpiredSessions(contexts, time) ==
  {sessionId \in SessionIds :
     /\ contexts[sessionId] # NoContext
     /\ IsExpired(contexts[sessionId], time)}

(***************************************************************************)
(* Inputs of the Context Manager                                           *)
(***************************************************************************)

\* The analyses handed to addMessage: the intent, whether the message has
\* deal details (a segment, a deal type or a region), and the first value of
\* each of its entities, a number as the text that String() gives for it.
PlainAnalysis ==
  [intent |-> "policy_lookup", hasDealDetails |-> FALSE, entities |-> <<>>]

\* A 15% discount on a renewal of 500000 for an enterprise.
DealAnalysis ==
  [intent |-> "case_creation", hasDealDetails |-> TRUE,
   entities |-> << <<"percentage", <<"1","5">>>>, <<"currency", <<"5","0","0","0","0","0">>>>,
                   <<"segment", <<"e","n","t","e","r","p","r","i","s","e">>>>, <<"dealType", <<"r","e","n","e","w","a","l">>>> >>]

\* The message names a region and nothing else of a deal.
VagueDealAnalysis ==
  [intent |-> "guidance_request", hasDealDetails |-> TRUE,
   entities |-> << <<"region", <<"e","m","e","a">>>> >>]

MessageInputs ==
  {<<"user", NoAnalysis>>, <<"assistant", NoAnalysis>>,
   <<"assistant", PlainAnalysis>>, <<"user", PlainAnalysis>>,
   <<"user", DealAnalysis>>, <<"user", VagueDealAnalysis>>}

\* The minutes that pass between two readings of the clock, and the last
\* minute of the model.
TickMinutes ==
  10

MaxTime ==
  50

\* The entries added to one list of one session, for the sessions that
\* expire and for the session whose lists fill up.
MaxSessionEntries ==
  1

MaxListEntries ==
  22

MaxShortListEntries ==
  6

\* A request of the kind may still be made on the session: none of the lists
\* it adds to has had the given number of entries.
MayAddMessage(sessionId, input, most) ==
  IF conversations[sessionId] = NoContext THEN TRUE
  ELSE /\ conversations[sessionId].added.messages < most
       /\ conversations[sessionId].added.recentQueries < most
       /\ conversations[sessionId].added.mentionedDeals < most

MayAddAction(sessionId, most) ==
  IF conversations[sessionId] = NoContext THEN TRUE
  ELSE conversations[sessionId].added.pendingActions < most

(***************************************************************************)
(* The Context Manager serving sessions                                    *)
(***************************************************************************)

InitSessions ==
  /\ CoreIdle
  /\ AuxIdle

\* contextManager.addMessage(sessionId, message, role, analysis)
AddMessage(sessionId, role, analysis) ==
  /\ conversations' =
       [conversations EXCEPT
          ![sessionId] = addMessage(conversations, sessionId, role, analysis,
                                    now)]
  /\ lastCall' = [operation |-> "addMessage", sessionId |-> sessionId]
  /\ UNCHANGED <<uiVars, now, caseVars, chatVars, procVars, storeVars>>

\* contextManager.addPendingAction(sessionId, action)
AddPendingAction(sessionId, type) ==
  /\ conversations' =
       [conversations EXCEPT
          ![sessionId] = addPendingAction(conversations, sessionId, type, now)]
  /\ lastCall' = [operation |-> "addPendingAction", sessionId |-> sessionId]
  /\ UNCHANGED <<uiVars, now, caseVars, chatVars, procVars, storeVars>>

\* contextManager.clearContext(sessionId)
ClearContext(sessionId) ==
  /\ conversations' = [conversations EXCEPT ![sessionId] = NoContext]
  /\ lastCall' = [operation |-> "clearContext", sessionId |-> sessionId]
  /\ UNCHANGED <<uiVars, now, caseVars, chatVars, procVars, storeVars>>

\* The callback of the timer that the constructor sets:
\* contextManager.cleanupExpiredContexts()
CleanupExpiredContexts ==
  /\ conversations' =
       [sessionId \in SessionIds |->
          IF sessionId \in ExpiredSessions(conversations, now)
            THEN NoContext ELSE conversations[sessionId]]
  /\ lastCall' = [operation |-> "cleanupExpiredContexts",
                  expiredSessions |-> ExpiredSessions(conversations, now)]
  /\ UNCHANGED <<uiVars, now, caseVars, chatVars, procVars, storeVars>>

\* Time passes.
Tick ==
  /\ now + TickMinutes <= MaxTime
  /\ now' = now + TickMinutes
  /\ UNCHANGED <<uiVars, conversations, lastCall, caseVars, chatVars, procVars,
                 storeVars>>

\* Two sessions with few requests each, the clock and the timer.
NextSessions ==
  \/ \E sessionId \in SessionIds, input \in MessageInputs :
       /\ MayAddMessage(sessionId, input, MaxSessionEntries)
       /\ AddMessage(sessionId, input[1], input[2])
  \/ \E sessionId \in SessionIds :
       /\ MayAddAction(sessionId, MaxSessionEntries)
       /\ AddPendingAction(sessionId, "create_case")
  \/ \E sessionId \in SessionIds : ClearContext(sessionId)
  \/ CleanupExpiredContexts
  \/ Tick

SessionSpec ==
  InitSessions /\ [][NextSessions]_vars

\* The timer fires every five minutes for as long as the manager lives.
SessionFairSpec ==
  SessionSpec /\ WF_vars(CleanupExpiredContexts)

\* One session with many requests: the lists of its context fill up.
NextLists ==
  \/ \E input \in MessageInputs :
       /\ MayAddMessage("session_a", input, MaxListEntries)
       /\ input[2] # NoAnalysis =>
            MayAddMessage("session_a", input, MaxShortListEntries)
       /\ AddMessage("session_a", input[1], input[2])
  \/ /\ MayAddAction("session_a", MaxShortListEntries)
     /\ AddPendingAction("session_a", "create_case")

ListSpec ==
  InitSessions /\ [][NextLists]_vars

(***************************************************************************)
(* Claims about the Context Manager                                        *)
(***************************************************************************)

\* The sessions that the map holds.
LiveSessions ==
  {sessionId \in SessionIds : conversations[sessionId] # NoContext}

\* The list holds the newest of the entries added to it, at most max of them
\* and no fewer than there are, in the order in which they were added.
NewestInOrder(list, added, max) ==
  /\ Len(list) <= max
  /\ Len(list) = Min(added, max)
  /\ \A i \in 1..Len(list) : list[i].id = added - Len(list) + i

\* C18: the bounded lists of a session never exceed their caps, 20 messages,
\* 3 pending actions, 5 mentioned deals and 5 recent query types, and each
\* holds exactly the most recent entries in their original order.
C18_ListsHoldNewest ==
  \A sessionId \in LiveSessions :
    LET context == conversations[sessionId]
    IN  /\ NewestInOrder(context.messages, context.added.messages, 20)
        /\ NewestInOrder(context.pendingActions,
                         context.added.pendingActions, 3)
        /\ NewestInOrder(context.mentionedDeals,
                         context.added.mentionedDeals, 5)
        /\ NewestInOrder(context.recentQueries,
                         context.added.recentQueries, 5)

\* A session to which more entries were added than any of its four lists
\* keeps.
C18_Witness ==
  \E sessionId \in LiveSessions :
    /\ conversations[sessionId].added.messages > 20
    /\ conversations[sessionId].added.pendingActions > 3
    /\ conversations[sessionId].added.mentionedDeals > 5
    /\ conversations[sessionId].added.recentQueries > 5

\* The session is in the map and its last access lies further back than the
\* expiry window.
Idle(sessionId) ==
  /\ conversations[sessionId] # NoContext
  /\ now - conversations[sessionId].lastAccessed > 30

\* A step of the timer's sweep.
SweepStep ==
  /\ lastCall' # NoResult
  /\ lastCall'.operation = "cleanupExpiredContexts"
  /\ conversations' # conversations \/ lastCall' # lastCall

\* A session leaves the map only in a sweep or when it is cleared, never in
\* a request made on it or on another session.
RemovedBySweepOrClear ==
  \A sessionId \in SessionIds :
    (conversations[sessionId] # NoContext
       /\ conversations'[sessionId] = NoContext)
      => \/ lastCall'.operation = "cleanupExpiredContexts"
         \/ /\ lastCall'.operation = "clearContext"
            /\ lastCall'.sessionId = sessionId

\* A sweep removes the sessions whose last access lies further back than the
\* 30 minutes of the window, and leaves the others as they are.
SweepRemovesIdle ==
  SweepStep =>
    \A sessionId \in SessionIds :
      conversations'[sessionId] =
        IF Idle(sessionId) THEN NoContext ELSE conversations[sessionId]

\* A request is made on a session that is idle but not yet swept.
RequestOnIdle(sessionId) ==
  /\ Idle(sessionId)
  /\ conversations'[sessionId] # conversations[sessionId]
  /\ lastCall'.operation \in {"addMessage", "addPendingAction"}
  /\ lastCall'.sessionId = sessionId

\* A request on a session that is idle but not yet swept finds its context:
\* the creation time and the entries are those of before, with the new entry
\* added, and the session is no longer idle.
IdleSessionKeepsState ==
  \A sessionId \in SessionIds :
    RequestOnIdle(sessionId)
      => /\ conversations'[sessionId] # NoContext
         /\ conversations'[sessionId].createdAt
              = conversations[sessionId].createdAt
         /\ conversations'[sessionId].lastAccessed = now
         /\ conversations'[sessionId].added.messages
              + conversations'[sessionId].added.pendingActions
              = conversations[sessionId].added.messages
                + conversations[sessionId].added.pendingActions + 1

\* C19: sessions are evicted lazily and by time.  A session is removed only
\* by the periodic sweep or an explicit clear, never by a request; a sweep
\* removes exactly the sessions whose last access is older than the 30-minute
\* window, so that a session accessed within the window survives; an expired
\* session that is accessed before the next sweep keeps its state; and a
\* session that stays idle is eventually removed by a later sweep.
C19_LazyEviction ==
  /\ [][RemovedBySweepOrClear /\ SweepRemovesIdle /\ IdleSessionKeepsState]_vars
  /\ \A sessionId \in SessionIds :
       Idle(sessionId) ~> ~Idle(sessionId)

\* A sweep has removed one session and left the other, which was accessed
\* exactly 30 minutes before.
C19_Witness ==
  /\ lastCall # NoResult
  /\ lastCall.operation = "cleanupExpiredContexts"
  /\ lastCall.expiredSessions # {}
  /\ \E sessionId \in LiveSessions :
       now - conversations[sessionId].lastAccessed = 30


(***************************************************************************)
(* Sessions of the pipeline                                                *)
(***************************************************************************)

\* The entries of the history that the requests of one session pushed.
OwnHistory(sessionId) ==
  SelectSeq(conversationHistory, LAMBDA entry : entry.sessionId = sessionId)

\* The session of the request that was answered last.
LastSession ==
  conversationHistory[Len(conversationHistory)].sessionId

\* C20: sessions are independent: the response that a session receives for an
\* utterance is the one that its own earlier messages determine; what other
\* sessions have sent does not change it.
C20_ResponseOfOwnSession ==
  response # NoResult =>
    response =
      responseTable[messageText][getCustomerFromContext(OwnHistory(LastSession))]

\* The context store keeps sessions apart: a call of the ContextManager under
\* one session id leaves the context stored for every other session id as it
\* was.
ContextOfOtherSessionsKept ==
  [][\A sessionId \in SessionIds :
       (/\ lastCall' # lastCall \/ conversations' # conversations
        /\ lastCall'.operation # "cleanupExpiredContexts"
        /\ lastCall'.sessionId = sessionId)
         => \A other \in SessionIds \ {sessionId} :
              conversations'[other] = conversations[other]]_vars

(***************************************************************************)
(* Context Manager (ContextManager): references                            *)
(***************************************************************************)

\* An exception thrown where a result was expected.
TypeError ==
  [raises |-> "TypeError"]

\* resolveContextualReference returning null.
NoResolution ==
  [null |-> TRUE]

IsWordChar(c) ==
  IsLetter(c) \/ IsDigit(c) \/ c = "_"

\* \b at position i of the text.
WordBoundary(text, i) ==
  (i > 1 /\ IsWordChar(text[i - 1])) # (i <= Len(text) /\ IsWordChar(text[i]))

\* The words of the set that stand at position i of the text, letters compared
\* without regard to case (flag i).
WordsAt(words, text, i) ==
  {w \in words :
     /\ i + Len(w) - 1 <= Len(text)
     /\ ToLowerCase(SubSeq(text, i, i + Len(w) - 1)) = w}

\* (that|the|this), (deal|customer|account|case|discount|approval) and
\* (it|that|this)
determinerWords ==
  {<<"t","h","a","t">>, <<"t","h","e">>, <<"t","h","i","s">>}

referentWords ==
  {<<"d","e","a","l">>, <<"c","u","s","t","o","m","e","r">>, <<"a","c","c",
      "o","u","n","t">>, <<"c","a","s","e">>, <<"d","i","s","c","o","u","n",
      "t">>, <<"a","p","p","r","o","v","a","l">>}

pronounWords ==
  {<<"i","t">>, <<"t","h","a","t">>, <<"t","h","i","s">>}

\* The positions right after a match of the pattern of the type that starts
\* at position i of the text.
ReferenceEnds(type, text, i) ==
  IF ~WordBoundary(text, i) THEN {}
  ELSE IF type = "contextual"
    THEN UNION {{SpaceRunEnd(text, i + Len(d)) + 1 + Len(r) :
                   r \in {w \in WordsAt(referentWords, text,
                                        SpaceRunEnd(text, i + Len(d)) + 1) :
                            /\ SpaceRunEnd(text, i + Len(d)) >= i + Len(d)
                            /\ WordBoundary(text,
                                 SpaceRunEnd(text, i + Len(d)) + 1 + Len(w))}} :
                d \in WordsAt(determinerWords, text, i)}
    ELSE {i + Len(p) :
            p \in {w \in WordsAt(pronounWords, text, i) :
                     WordBoundary(text, i + Len(w))}}

\* The position right after the match that starts at position i, 0 when the
\* pattern does not match there.
ReferenceEnd(type, text, i) ==
  IF ReferenceEnds(type, text, i) = {} THEN 0
  ELSE CHOOSE e \in ReferenceEnds(type, text, i) : TRUE

\* message.match(pattern)[0]: the leftmost match, Null when there is none.
FirstReference(type, text) ==
  LET starts == {i \in 1..Len(text) : ReferenceEnd(type, text, i) # 0}
      first == CHOOSE i \in starts : \A j \in starts : i <= j
  IN  IF starts = {} THEN Null
      ELSE SubSeq(text, first, ReferenceEnd(type, text, first) - 1)

\* text.replace(pattern, replacement) from position i on: every match is
\* replaced (flag g).  No replacement of the model names a group of the
\* pattern.
RECURSIVE ReplaceReferences(_, _, _, _)
ReplaceReferences(type, text, i, replacement) ==
  IF i > Len(text) THEN <<>>
  ELSE IF ReferenceEnd(type, text, i) # 0
    THEN replacement
           \o ReplaceReferences(type, text, ReferenceEnd(type, text, i),
                                replacement)
  ELSE <<text[i]>> \o ReplaceReferences(type, text, i + 1, replacement)

\* Number.prototype.toLocaleString of a whole number given by its digits.
RECURSIVE ToLocaleString(_)
ToLocaleString(digits) ==
  IF Len(digits) <= 3 THEN digits
  ELSE ToLocaleString(SubSeq(digits, 1, Len(digits) - 3)) \o <<",">>
         \o SubSeq(digits, Len(digits) - 2, Len(digits))

\* parts.join(' ')
RECURSIVE Join(_)
Join(parts) ==
  IF parts = <<>> THEN <<>>
  ELSE IF Len(parts) = 1 THEN parts[1]
  ELSE parts[1] \o <<" ">> \o Join(Tail(parts))

\* ContextManager.formatDealDescription
formatDealDescription(deal) ==
  Join((IF deal.segment # Null THEN <<deal.segment>> ELSE <<>>)
       \o (IF deal.dealType # Null THEN <<deal.dealType>> ELSE <<>>)
       \o (IF deal.dealValue # Null
             THEN << <<"$">> \o ToLocaleString(deal.dealValue) >> ELSE <<>>))
    \o <<" ","d","e","a","l">>

\* value ? [value] : []
ArrayOf(value) ==
  IF value # Null THEN <<value>> ELSE <<>>

\* ContextManager.resolveContextualReference: the replacement and the
\* entities for a reference, NoResolution for null.  The reference is
\* searched as it was typed.
resolveContextualReference(context, type, reference) ==
  IF type = "contextual"
    THEN IF Includes(reference, <<"d","e","a",
        "l">>) /\ context.currentDeal # NoDeal
           THEN [replacement |-> formatDealDescription(context.currentDeal),
                 entities |->
                   << <<"segment", ArrayOf(context.currentDeal.segment)>>,
                      <<"dealType", ArrayOf(context.currentDeal.dealType)>>,
                      <<"currency", ArrayOf(context.currentDeal.dealValue)>>,
                      <<"percentage",
                        ArrayOf(context.currentDeal.discountPercent)>> >>]
         ELSE IF /\ Includes(reference, <<"c","u","s","t","o","m","e","r">>)
                 /\ context.currentDeal # NoDeal
                 /\ context.currentDeal.segment # Null
           THEN [replacement |-> context.currentDeal.segment \o <<" ","c","u",
               "s","t","o","m","e","r">>,
                 entities |->
                   << <<"segment", <<context.currentDeal.segment>> >> >>]
         ELSE IF /\ Includes(reference, <<"d","i","s","c","o","u","n","t">>)
                 /\ context.currentDeal # NoDeal
                 /\ context.currentDeal.discountPercent # Null
           THEN [replacement |->
                   context.currentDeal.discountPercent \o <<"%"," ","d","i",
                       "s","c","o","u","n","t">>,
                 entities |->
                   << <<"percentage",
                        <<context.currentDeal.discountPercent>> >> >>]
         ELSE NoResolution
  ELSE IF context.contextualEntities # <<>>
    THEN [replacement |-> context.contextualEntities[1][2],
          entities |-> << <<context.contextualEntities[1][1],
                            <<context.contextualEntities[1][2]>> >> >>]
  ELSE NoResolution

\* One round of the forEach of resolveReferences: the result so far, after
\* the pattern of the type was looked for in the message.
ResolveStep(resolved, type, message, context) ==
  IF FirstReference(type, message) = Null THEN resolved
  ELSE IF resolveContextualReference(context, type,
                                     FirstReference(type, message))
            = NoResolution
    THEN resolved
  ELSE [resolvedMessage |->
          ReplaceReferences(
            type, resolved.resolvedMessage, 1,
            resolveContextualReference(
              context, type, FirstReference(type, message)).replacement),
        resolvedEntities |->
          MergeEntities(
            resolved.resolvedEntities,
            resolveContextualReference(
              context, type, FirstReference(type, message)).entities)]

\* A session that the map does not hold gets its message back.
Unresolved(message) ==
  [resolvedMessage |-> message, resolvedEntities |-> <<>>]

\* ContextManager.resolveReferences: the result, TypeError when the call
\* throws one: a message that is no string has no match method.
resolveReferences(contexts, sessionId, message) ==
  IF contexts[sessionId] = NoContext THEN Unresolved(message)
  ELSE IF message = NotAString THEN TypeError
  ELSE ResolveStep(ResolveStep(Unresolved(message), "contextual", message,
                               contexts[sessionId]),
                   "pronoun", message, contexts[sessionId])

\* The messages whose references are resolved in the model.
referenceMessageList ==
  << \* "what about that deal"
     <<"w","h","a","t"," ","a","b","o","u","t"," ","t","h","a","t"," ","d",
         "e","a","l">>,
     \* "That Deal is it"
     <<"T","h","a","t"," ","D","e","a","l"," ","i","s"," ","i","t">>,
     \* "is this discount ok for the customer"
     <<"i","s"," ","t","h","i","s"," ","d","i","s","c","o","u","n","t"," ",
         "o","k"," ","f","o","r"," ","t","h","e"," ","c","u","s","t","o","m",
         "e","r">>,
     \* "is it approved"
     <<"i","s"," ","i","t"," ","a","p","p","r","o","v","e","d">>,
     \* "the approval is there"
     <<"t","h","e"," ","a","p","p","r","o","v","a","l"," ","i","s"," ","t",
         "h","e","r","e">>,
     \* "hello there"
     <<"h","e","l","l","o"," ","t","h","e","r","e">>,
     <<>>,
     NotAString >>

ReferenceMessages ==
  {referenceMessageList[i] : i \in 1..Len(referenceMessageList)}

InitReferences ==
  /\ CoreIdle
  /\ AuxIdle

\* contextManager.resolveReferences(sessionId, message): the map of contexts
\* is read and left as it is.
ResolveReferences(sessionId, message) ==
  /\ lastCall' = [operation |-> "resolveReferences", sessionId |-> sessionId,
                  message |-> message,
                  result |-> resolveReferences(conversations, sessionId,
                                               message)]
  /\ UNCHANGED <<uiVars, conversations, now, caseVars, chatVars, procVars, storeVars>>

\* Two sessions whose messages are recorded and whose references are
\* resolved.
NextReferences ==
  \/ \E sessionId \in SessionIds, input \in MessageInputs :
       /\ MayAddMessage(sessionId, input, MaxSessionEntries)
       /\ AddMessage(sessionId, input[1], input[2])
  \/ \E sessionId \in SessionIds, message \in ReferenceMessages :
       ResolveReferences(sessionId, message)

ReferenceSpec ==
  InitReferences /\ [][NextReferences]_vars

\* resolveReferences was called last.
Resolving ==
  lastCall # NoResult /\ lastCall.operation = "resolveReferences"

\* The session of the call is unknown, or its message holds no reference
\* phrase, or its context holds nothing to substitute.
NothingToResolve ==
  \/ conversations[lastCall.sessionId] = NoContext
  \/ /\ FirstReference("contextual", lastCall.message) = Null
     /\ FirstReference("pronoun", lastCall.message) = Null
  \/ /\ conversations[lastCall.sessionId].currentDeal = NoDeal
     /\ conversations[lastCall.sessionId].contextualEntities = <<>>

\* C21: resolveReferences never throws, for any message and any session
\* state; when the session is unknown, or the message holds no reference
\* phrase, or the context holds nothing to substitute, it returns the message
\* unchanged with no resolved entities.
C21_NeverThrowsAndKeepsMessage ==
  Resolving =>
    /\ lastCall.result # TypeError
    /\ NothingToResolve => lastCall.result = Unresolved(lastCall.message)

\* The same for the messages that are texts.
ResolveReferencesOfTexts ==
  (Resolving /\ lastCall.message # NotAString) =>
    /\ lastCall.result # TypeError
    /\ NothingToResolve => lastCall.result = Unresolved(lastCall.message)

(***************************************************************************)
(* The history of the pipeline over many turns                             *)
(***************************************************************************)

\* AIService.maxContextLength when the environment sets none: the length at
\* which AIService.addToHistory cuts its history.
maxConversationLength ==
  50

\* The turns of one long conversation.
MaxTurns ==
  52

\* The utterances that name no customer.
PlainUtterances ==
  {u \in Utterances : customerMatchTable[u] = Null}

\* One session sends message after message.
NextHistory ==
  \E u \in PlainUtterances :
    /\ Len(conversationHistory) < MaxTurns
    /\ ProcessMessage("session_a", u)

HistorySpec ==
  InitChat /\ [][NextHistory]_vars

\* C22: the utterances that the pipeline keeps are bounded by a fixed cap:
\* the conversation history of the service that processes the messages does
\* not grow with the number of messages processed.
C22_HistoryBounded ==
  Len(conversationHistory) <= maxConversationLength

(***************************************************************************)
(* Actions of a response                                                   *)
(***************************************************************************)

\* The action types that handleMessageAction of the chat handler gives to the
\* claim's cases; every other type reaches its default branch.
recognizedActionTypes ==
  {"create_case", "retry_message", "get_guidance", "check_approval",
   "open_dynamics"}

\* C23: every action attached to a response of the pipeline has a type
\* recognized downstream, so that none reaches the unknown-action branch of
\* the chat handler.
C23_ActionTypesRecognized ==
  Answered =>
    \A i \in 1..Len(response.actions) :
      response.actions[i].type \in recognizedActionTypes

(***************************************************************************)
(* The checker called again on a draft                                     *)
(***************************************************************************)

\* The drafts that are checked more than once.
RecheckedDrafts ==
  {c \in CaseDrafts : c.priority \in {"medium", "high"} /\ c.description = <<>>}

InitRecheck ==
  /\ caseData \in RecheckedDrafts
  /\ compliance = NoResult
  /\ routing = NoResult
  /\ messageText = <<>>
  /\ matched = NoResult
  /\ response = NoResult
  /\ conversationHistory = <<>>
  /\ AuxIdle

\* policyChecker.checkCompliance(caseData), called on a draft that was checked
\* before; the earlier result and the draft as it was are remembered.
RecheckCompliance ==
  /\ compliance # NoResult
  /\ compliance' = complianceTable[caseData]
  /\ caseData' = DraftAfterCheck(caseData)
  /\ lastCall' = [operation |-> "checkCompliance", caseData |-> caseData,
                  earlier |-> compliance]
  /\ UNCHANGED <<uiVars, routing, chatVars, procVars, storeVars, conversations, now>>

\* policyChecker.checkCompliance(other), called for another draft between two
\* checks of the draft.
CheckOtherDraft(other) ==
  /\ lastCall' = [operation |-> "checkCompliance", caseData |-> other,
                  earlier |-> complianceTable[other]]
  /\ UNCHANGED <<uiVars, caseVars, chatVars, procVars, storeVars, conversations, now>>

NextRecheck ==
  \/ CheckCompliance
  \/ RouteCase
  \/ RecheckCompliance
  \/ \E other \in {CaseDraft("legal", "critical", 600000, Pct(35),
                             <<"A","c","m","e">>, <<>>)} :
       CheckOtherDraft(other)

RecheckSpec ==
  InitRecheck /\ [][NextRecheck]_vars

ParseFloat(numeral) ==
  LET dot == IndexOf(numeral, <<".">>)
      fraction == SubSeq(numeral, dot + 1, Len(numeral))
  IN  IF dot = 0 THEN 1000 * DigitsValue(numeral)
      ELSE 1000 * DigitsValue(SubSeq(numeral, 1, dot - 1))
             + (CASE Len(fraction) = 1 -> 100 * DigitsValue(fraction)
                  [] Len(fraction) = 2 -> 10 * DigitsValue(fraction)
                  [] OTHER -> DigitsValue(SubSeq(fraction, 1, 3)))

\* /(\d+(?:\.\d+)?)%/ matched at position i of the text: the position of the
\* percent sign that ends the match, 0 when the pattern does not match there.
PercentageEnd(text, i) ==
  LET whole == i + DigitRun(text, i)
      fraction == whole + 1 + DigitRun(text, whole + 1)
  IN  IF DigitRun(text, i) = 0 THEN 0
      ELSE IF whole <= Len(text) /\ text[whole] = "%" THEN whole
      ELSE IF /\ whole <= Len(text) /\ text[whole] = "."
              /\ fraction > whole + 1
              /\ fraction <= Len(text) /\ text[fraction] = "%"
        THEN fraction
      ELSE 0

\* message.match(pattern) under flag g, from position i on: the matches from
\* left to right, each without its percent sign (m.replace('%', '')).
RECURSIVE PercentageMatches(_, _)
PercentageMatches(text, i) ==
  IF i > Len(text) THEN <<>>
  ELSE IF PercentageEnd(text, i) # 0
    THEN <<SubSeq(text, i, PercentageEnd(text, i) - 1)>>
           \o PercentageMatches(text, PercentageEnd(text, i) + 1)
  ELSE PercentageMatches(text, i + 1)

\* entities.percentage of MessageProcessor.extractAllEntities(message): the
\* numbers that the extractor makes of the matches, NoEntry when the key is
\* absent.
extractAllEntities(message) ==
  IF PercentageMatches(message, 1) = <<>> THEN NoEntry
  ELSE [numbers |->
          [k \in 1..Len(PercentageMatches(message, 1)) |->
             ParseFloat(PercentageMatches(message, 1)[k])]]

\* entities.percentage of SimpleAiService.extractEntities(input): group 1 of
\* the leftmost match of /(\d+)%/, a string, NoEntry when the key is absent.
extractEntities(input) ==
  LET starts == {i \in 1..Len(input) :
                   /\ DigitRun(input, i) > 0
                   /\ i + DigitRun(input, i) <= Len(input)
                   /\ input[i + DigitRun(input, i)] = "%"}
      first == CHOOSE i \in starts : \A j \in starts : i <= j
  IN  IF starts = {} THEN NoEntry
      ELSE [string |-> SubSeq(input, first, first + DigitRun(input, first) - 1)]

\* The messages of the model are the texts of at most this many characters
\* over a few characters.
MaxMessageLen ==
  3

RECURSIVE TextsUpTo(_)
TextsUpTo(n) ==
  IF n = 0 THEN {<<>>}
  ELSE TextsUpTo(n - 1)
         \cup {Append(t, c) : t \in {s \in TextsUpTo(n - 1) : Len(s) = n - 1},
                              c \in {"0", "5", ".", "%", "x"}}

InitEntities ==
  /\ CoreIdle
  /\ AuxIdle

\* messageProcessor.extractAllEntities(message)
ExtractAllEntities(message) ==
  /\ lastCall' = [operation |-> "extractAllEntities", message |-> message,
                  percentage |-> extractAllEntities(message)]
  /\ UNCHANGED <<uiVars, conversations, now, caseVars, chatVars, procVars, storeVars>>

\* simpleAiService.extractEntities(input), which analyzeUserInput calls on
\* the lower-cased message.
ExtractEntities(message) ==
  /\ lastCall' = [operation |-> "extractEntities", message |-> message,
                  percentage |-> extractEntities(ToLowerCase(message))]
  /\ UNCHANGED <<uiVars, conversations, now, caseVars, chatVars, procVars, storeVars>>

NextEntities ==
  \/ \E message \in TextsUpTo(MaxMessageLen) : ExtractAllEntities(message)
  \/ \E message \in TextsUpTo(MaxMessageLen) : ExtractEntities(message)

EntitySpec ==
  InitEntities /\ [][NextEntities]_vars

\* The numeral that stands right before position p of the text: the digits
\* before p, with the digits and the point before them when there are such.
NumeralBefore(text, p) ==
  LET digitsFrom(q) ==
        CHOOSE i \in 1..q : /\ \A k \in i..(q - 1) : IsDigit(text[k])
                            /\ i = 1 \/ ~IsDigit(text[i - 1])
      fraction == digitsFrom(p)
      whole == digitsFrom(fraction - 1)
  IN  IF fraction > 2 /\ text[fraction - 1] = "." /\ whole < fraction - 1
        THEN SubSeq(text, whole, p - 1)
        ELSE SubSeq(text, fraction, p - 1)

\* The numbers of a text that are immediately followed by a percent sign,
\* from left to right.
RECURSIVE PercentNumbers(_, _)
PercentNumbers(text, p) ==
  IF p > Len(text) THEN <<>>
  ELSE IF text[p] = "%" /\ p > 1 /\ IsDigit(text[p - 1])
    THEN <<ParseFloat(NumeralBefore(text, p))>> \o PercentNumbers(text, p + 1)
  ELSE PercentNumbers(text, p + 1)

\* An extractor has returned the entities of a message.
Extracted ==
  /\ lastCall # NoResult
  /\ lastCall.operation \in {"extractAllEntities", "extractEntities"}

\* C25: the percentage entities that the extractor returns for an utterance
\* are exactly the numbers immediately followed by a percent sign, as numbers
\* and not as strings; a bare number yields none, and when nothing matches
\* the percentage key is absent.
C25_PercentagesAreNumbers ==
  Extracted =>
    lastCall.percentage
      = IF PercentNumbers(lastCall.message, 1) = <<>> THEN NoEntry
        ELSE [numbers |-> PercentNumbers(lastCall.message, 1)]

\* The same for the extractor of the Message Processor alone.
PercentagesOfMessageProcessor ==
  (Extracted /\ lastCall.operation = "extractAllEntities") =>
    lastCall.percentage
      = IF PercentNumbers(lastCall.message, 1) = <<>> THEN NoEntry
        ELSE [numbers |-> PercentNumbers(lastCall.message, 1)]

(***************************************************************************)
(* Claims about the complexity analysis of the router                      *)
(***************************************************************************)

\* The points of the claim for a draft, before the multiplication: the deal
\* value bucket, the discount bucket and the base weight of the category (1
\* for a category that has none).
ClaimedPoints(c) ==
  (IF c.dealValue > 500000 THEN 3 ELSE IF c.dealValue > 100000 THEN 2
   ELSE IF c.dealValue > 25000 THEN 1 ELSE 0)
  + (IF c.discountRequested > Pct(30) THEN 3
     ELSE IF c.discountRequested > Pct(20) THEN 2
     ELSE IF c.discountRequested > Pct(10) THEN 1 ELSE 0)
  + (IF c.category \in {"technical", "legal"} THEN 3
     ELSE IF c.category \in {"dealStructure", "competitive", "pilotProgram"}
       THEN 2
     ELSE 1)

\* The score of the claim, in tenths: the points times the multiplier of the
\* priority (1 for a draft with no priority), then the points for a
\* competitor and for multi-year terms.
ClaimedScore(c) ==
  ClaimedPoints(c)
    * (CASE c.priority = "medium" -> 12
         [] c.priority = "high" -> 15
         [] c.priority = "critical" -> 20
         [] OTHER -> 10)
    + (IF Trim(c.competitorInfo) # <<>> THEN 20 ELSE 0)
    + (IF Includes(ToLowerCase(c.description),
                   <<"m","u","l","t","i","-","y","e","a","r">>)
         THEN 10 ELSE 0)

\* C26: the complexity score of a draft is (deal-value points + discount
\* points + category weight) times the priority multiplier, with +2 for a
\* competitor and +1 for multi-year terms added after the multiplication; the
\* tiers follow the score: below 3 simple/low, below 5 moderate/medium, below
\* 8 complex/medium, from 8 on very_complex/high.
C26_ComplexityScoreAndTiers ==
  routing # NoResult =>
    /\ routing.analysis.complexityScore = ClaimedScore(caseData)
    /\ <<routing.analysis.complexity, routing.analysis.riskLevel>>
         = (IF ClaimedScore(caseData) < 30 THEN <<"simple", "low">>
            ELSE IF ClaimedScore(caseData) < 50 THEN <<"moderate", "medium">>
            ELSE IF ClaimedScore(caseData) < 80 THEN <<"complex", "medium">>
            ELSE <<"very_complex", "high">>)

\* A routed draft of high priority with a competitor and multi-year terms,
\* whose score the multiplication alone leaves below 8.
C26_Witness ==
  /\ routing # NoResult
  /\ caseData.priority = "high"
  /\ Trim(caseData.competitorInfo) # <<>>
  /\ DescriptionIncludes(caseData, "multiYear")
  /\ routing.analysis.complexityScore - 30 < 80
  /\ routing.analysis.complexity = "very_complex"

\* The titles of routingRules.approvalLevels.
LevelTitles ==
  {approvalLevels[k].title : k \in 1..Len(approvalLevels)}

\* C27: routeCase answers 'Auto-approved' (or 'Immediate') only for a case
\* whose analysis is autoApprovable, and then with approvalLevel 1; a case
\* that is not auto-approvable is routed to a human approver; and the
\* approvalLevel agrees with the approver's title in the table of approval
\* levels.
C27_AutoApprovalOnlyWhenApprovable ==
  routing # NoResult =>
    /\ ( \/ routing.routing.primaryApprover = AutoApproved
         \/ routing.routing.expectedTimeline = "Immediate" )
         => /\ routing.analysis.autoApprovable
            /\ routing.routing.approvalLevel = 1
    /\ ~routing.analysis.autoApprovable
         => routing.routing.primaryApprover # AutoApproved
    /\ routing.routing.primaryApprover \in LevelTitles
         => routing.routing.approvalLevel
              = AuthorityOf(routing.routing.primaryApprover)

\* C28: for a pricing draft on an add-on deal, a discount requested above the
\* standard add-on maximum of 5% is checked as 'non_compliant' with the
\* violation that the discount exceeds the limit.
C28_AddonDiscountLimit ==
  ( /\ compliance # NoResult
    /\ caseData.category = "pricing"
    /\ inferDealType(caseData) = "addon"
    /\ caseData.discountRequested > Pct(standardDiscounts.addon.all.max) )
  => /\ compliance.compliance.overallCompliance = "non_compliant"
     /\ \E i \in 1..Len(compliance.compliance.violations) :
          compliance.compliance.violations[i].type = "discount_limit_exceeded"

(***************************************************************************)
(* Case creation form                                                      *)
(***************************************************************************)

\* "3 seats pilot, equity"
formDescription ==
  <<"3"," ","s","e","a","t","s"," ","p","i","l","o","t",","," ","e","q","u",
    "i","t","y">>

\* "Acme pilot"
formTitle ==
  <<"A","c","m","e"," ","p","i","l","o","t">>

\* The values typed into the fields of the form that the model edits.
FieldValues ==
  [title |-> {<<>>, formTitle},
   description |-> {<<>>, formDescription},
   businessJustification |-> {<<>>, <<"o","k">>},
   dealValue |-> {0, 20000},
   discountRequested |-> {0, Pct(10), Pct(30)}]

\* validateForm: the fields that get an error.
validateForm(formData_) ==
  {field \in {"title", "description", "businessJustification"} :
     Trim(formData_[field]) = <<>>}
  \cup (IF formData_.category = "pricing"
          THEN {field \in {"dealValue", "discountRequested"} :
                  formData_[field] = 0}
          ELSE {})
  \cup (IF formData_.category = "competitive"
           /\ Trim(formData_.competitorInfo) = <<>>
          THEN {"competitorInfo"} ELSE {})

\* The effect on [formData]: the timer set when title, category and
\* description are filled in, closing over the field values of that render.
DebouncedChecks(formData_) ==
  IF /\ formData_.title # <<>>
     /\ formData_.category # ""
     /\ formData_.description # <<>>
    THEN formData_
    ELSE NoResult

\* The forms for which the effect sets a timer.
CheckableForms ==
  {[emptyForm EXCEPT !.title = t, !.description = formDescription,
                     !.businessJustification = b, !.dealValue = v,
                     !.discountRequested = d] :
     t \in {formTitle}, b \in FieldValues.businessJustification,
     v \in FieldValues.dealValue, d \in FieldValues.discountRequested}

\* What runChecks stores for each of them, computed once.
runChecksTable ==
  [f \in CheckableForms |->
     [complianceCheck |-> checkCompliance(f), routingInfo |-> routeCase(f)]]

\* handleInputChange(field, value), with the render that follows: the effect's
\* cleanup clears the timer of the previous render and the effect sets the
\* next one.
HandleInputChange(field, value) ==
  /\ submitted = NoResult
  /\ formData' = [formData EXCEPT ![field] = value]
  /\ checkTimer' = DebouncedChecks(formData')
  /\ UNCHANGED <<complianceCheck, routingInfo, isSubmitting, submission,
                 submitted>>
  /\ UNCHANGED <<caseVars, chatVars, procVars, storeVars, sessionVars,
                 dialogVars>>

\* The 500 ms timer fires: runChecks on the field values it closes over.
RunChecks ==
  /\ submitted = NoResult
  /\ checkTimer # NoResult
  /\ complianceCheck' = runChecksTable[checkTimer].complianceCheck
  /\ routingInfo' = runChecksTable[checkTimer].routingInfo
  /\ checkTimer' = NoResult
  /\ UNCHANGED <<formData, isSubmitting, submission, submitted>>
  /\ UNCHANGED <<caseVars, chatVars, procVars, storeVars, sessionVars,
                 dialogVars>>

\* handleSubmit up to its await; the submit button is disabled while
\* isSubmitting.  The handler closes over formData, routingInfo and
\* complianceCheck of the render in which it was called.
HandleSubmit ==
  /\ submitted = NoResult
  /\ ~isSubmitting
  /\ IF validateForm(formData) = {}
       THEN /\ isSubmitting' = TRUE
            /\ submission' = [formData |-> formData,
                              routingInfo |-> routingInfo,
                              complianceCheck |-> complianceCheck]
       ELSE UNCHANGED <<isSubmitting, submission>>
  /\ UNCHANGED <<formData, checkTimer, complianceCheck, routingInfo,
                 submitted>>
  /\ UNCHANGED <<caseVars, chatVars, procVars, storeVars, sessionVars,
                 dialogVars>>

\* result?.part: undefined for null.
OptionalPart(result, part) ==
  IF result = NoResult THEN NoEntry ELSE result[part]

\* submissionData = {...formData, routing: routingInfo?.routing,
\* compliance: complianceCheck?.compliance}
submissionData(formData_, routingInfo_, complianceCheck_) ==
  [routing |-> OptionalPart(routingInfo_, "routing"),
   compliance |-> OptionalPart(complianceCheck_, "compliance")] @@ formData_

\* handleSubmit after its await of 1000 ms: onSubmit(submissionData), on which
\* ChatInterface hides the form and its timer is cleared.
ResumeSubmit ==
  /\ submission # NoResult
  /\ submitted' = submissionData(submission.formData, submission.routingInfo,
                                 submission.complianceCheck)
  /\ isSubmitting' = FALSE
  /\ submission' = NoResult
  /\ checkTimer' = NoResult
  /\ UNCHANGED <<formData, complianceCheck, routingInfo>>
  /\ UNCHANGED <<caseVars, chatVars, procVars, storeVars, sessionVars,
                 dialogVars>>

NextForm ==
  \/ \E field \in DOMAIN FieldValues :
       \E value \in FieldValues[field] : HandleInputChange(field, value)
  \/ RunChecks
  \/ HandleSubmit
  \/ ResumeSubmit

FormSpec ==
  InitChat /\ [][NextForm]_vars

\* C29: the routing and compliance results attached to a submitted case are
\* the ones computed from the field values submitted with it: never the
\* results of earlier field values, never none.
C29_SubmittedResultsAreCurrent ==
  submitted # NoResult =>
    /\ submitted.routing # NoEntry
    /\ submitted.compliance # NoEntry
    /\ submitted.routing = routeCase(submitted).routing
    /\ submitted.compliance = checkCompliance(submitted).compliance

(***************************************************************************)
(* Chat interface                                                          *)
(***************************************************************************)

\* The messages shown in the model, at most, when a send is accepted.
MaxMessages ==
  5

\* The session of the chat interface.
dialogSessionId ==
  "session_a"

\* What is handed to handleSendMessage: two utterances and a text of blanks.
DialogTexts ==
  {utteranceList[1], utteranceList[2], <<" ", " ">>}

\* A message of the list.  call stands for the part of the id that tells the
\* messages of one call of handleSendMessage from those of another; it is 0
\* for the messages that the other handlers append.
Message(role, type, call) ==
  [role |-> role, type |-> type, call |-> call]

\* The guard of handleSendMessage without its test of isLoading.
SendAccepted_WhileLoading(messageText_, isLoading_) ==
  Trim(messageText_) # <<>>

\* if (!messageText.trim() || isLoading) return;
SendAccepted(messageText_, isLoading_) ==
  Trim(messageText_) # <<>> /\ ~isLoading_

\* The calls of handleSendMessage accepted so far.
CallsAccepted(messages_) ==
  Cardinality({i \in 1..Len(messages_) : messages_[i].role = "user"})

\* The assistant message that handleSendMessage appends for a response: the
\* reply, or the error notice for the failure result.
OutcomeMessage(response_, call) ==
  IF response_.success
    THEN Message("assistant", response_.responseType, call)
    ELSE Message("assistant", "error", call)

\* initializeChat: the welcome message, after which the input is enabled.
InitializeChat ==
  /\ messages = <<>>
  /\ messages' = <<Message("assistant", "welcome", 0)>>
  /\ UNCHANGED <<isLoading, pendingCalls>>
  /\ UNCHANGED <<caseVars, chatVars, procVars, storeVars, sessionVars,
                 formVars>>

\* handleSendMessage(messageText) up to its await.  The service is initialized
\* by then, so processMessage pushes the message on its history and computes
\* its response before it returns its promise.
HandleSendMessage(messageText_) ==
  /\ messages # <<>>
  /\ IF SendAccepted(messageText_, isLoading)
       THEN /\ messages' =
                 Append(messages,
                        Message("user", Absent, CallsAccepted(messages) + 1))
            /\ isLoading' = TRUE
            /\ messageText' = messageText_
            /\ conversationHistory' =
                 Append(conversationHistory,
                        [sessionId |-> dialogSessionId,
                         customerMatch |-> customerMatchTable[messageText_]])
            /\ response' =
                 responseTable[messageText_]
                              [getCustomerFromContext(conversationHistory')]
            /\ matched' = NoResult
            /\ pendingCalls' =
                 pendingCalls \cup {[call |-> CallsAccepted(messages) + 1,
                                     response |-> response']}
       ELSE UNCHANGED <<chatVars, dialogVars>>
  /\ UNCHANGED <<caseVars, procVars, storeVars, sessionVars, formVars>>

\* handleSendMessage after its await: the reply or the error notice is
\* appended and the finally block clears the loading flag.
SettleCall(pending) ==
  /\ pending \in pendingCalls
  /\ messages' = Append(messages, OutcomeMessage(pending.response, pending.call))
  /\ isLoading' = FALSE
  /\ pendingCalls' = pendingCalls \ {pending}
  /\ UNCHANGED <<caseVars, chatVars, procVars, storeVars, sessionVars,
                 formVars>>

\* handleInlineCaseCancel: one of the handlers that append a message of their
\* own.
HandleInlineCaseCancel ==
  /\ messages # <<>>
  /\ messages' = Append(messages, Message("assistant", "info", 0))
  /\ UNCHANGED <<isLoading, pendingCalls>>
  /\ UNCHANGED <<caseVars, chatVars, procVars, storeVars, sessionVars,
                 formVars>>

NextDialog ==
  \/ InitializeChat
  \/ \E messageText_ \in DialogTexts :
       /\ Len(messages) < MaxMessages
       /\ HandleSendMessage(messageText_)
  \/ \E pending \in pendingCalls : SettleCall(pending)
  \/ /\ Len(messages) < MaxMessages
     /\ HandleInlineCaseCancel
  \/ /\ Len(conversationHistory) < MaxHistory
     /\ ProcessMessage("session_b", NotAString)

DialogSpec ==
  InitChat /\ [][NextDialog]_vars

\* A promise returned by processMessage is settled, and the handler that
\* awaits it is resumed from the queue of microtasks.
DialogFairSpec ==
  DialogSpec /\ WF_vars(\E pending \in pendingCalls : SettleCall(pending))

\* The positions of the assistant messages appended for a call.
OutcomesOf(call) ==
  {j \in 1..Len(messages) :
     messages[j].role = "assistant" /\ messages[j].call = call}

\* The calls that have not settled.
CallsPending ==
  {pending.call : pending \in pendingCalls}

\* Every accepted message has no outcome while its call is pending and then
\* exactly one, after the user's message; no outcome is shown without its
\* accepted message; one call at most is in flight, and the loading flag is
\* set exactly then.
OneOutcomePerMessage ==
  /\ Cardinality(pendingCalls) <= 1
  /\ isLoading <=> pendingCalls # {}
  /\ \A i \in 1..Len(messages) :
       messages[i].role = "user" =>
         IF messages[i].call \in CallsPending
           THEN OutcomesOf(messages[i].call) = {}
           ELSE /\ Cardinality(OutcomesOf(messages[i].call)) = 1
                /\ \A j \in OutcomesOf(messages[i].call) : j > i
  /\ \A j \in 1..Len(messages) :
       (messages[j].role = "assistant" /\ messages[j].call # 0) =>
         \E i \in 1..(j - 1) :
           messages[i].role = "user" /\ messages[i].call = messages[j].call

\* While a message is pending a send changes nothing: no message is accepted
\* and no call is made.
SendsIgnoredWhilePending ==
  isLoading =>
    /\ CallsAccepted(messages') = CallsAccepted(messages)
    /\ pendingCalls' \subseteq pendingCalls
    /\ (conversationHistory' # conversationHistory =>
          conversationHistory'[Len(conversationHistory')].sessionId
            # dialogSessionId)

\* C30: every message accepted by handleSendMessage reaches exactly one
\* outcome, a reply or an error notice appended after the user's message, and
\* the loading flag returns to false; while a message is pending further
\* sends are ignored, so that one call at most is in flight.
C30_OneOutcomePerAcceptedMessage ==
  /\ []OneOutcomePerMessage
  /\ [][SendsIgnoredWhilePending]_vars
  /\ (isLoading ~> ~isLoading)

\* C30 witness: a message was accepted while another handler appended its own
\* message, the call has settled with the error notice, and the flag is back
\* to false.
C30_Witness ==
  /\ ~isLoading
  /\ \E i, j, k \in 1..Len(messages) :
       /\ i < j /\ j < k
       /\ messages[i].role = "user"
       /\ messages[j] = Message("assistant", "info", 0)
       /\ messages[k] = Message("assistant", "error", messages[i].call)

=========================================================================
